---- MODULE Spec2Model ----
(***************************************************************************)
(* Airbnb Wishlist to Google Sheets: model of the content script           *)
(* (src/content.js), the popup and the background script.  Strings of the  *)
(* content script are sequences of one-character strings, so that length,  *)
(* indexing, substring and trim are computed as JavaScript computes them.  *)
(* Specifications: SpecSimilar applies areStringSimilar to enumerated      *)
(* pairs; SpecBeds, SpecPrice, SpecLink, SpecComment, SpecRating and       *)
(* SpecName apply one field extractor to enumerated cards; SpecRecord runs *)
(* one extraction on cards built from element trees; Spec is the message   *)
(* listener serving ping and extraction requests in an enumerated page,    *)
(* SpecLive the same with the load-completion event firing eventually,     *)
(* SpecLoading the same in a page whose heading appears while it loads;    *)
(* SpecHost is the popup with the background script saving to a sheet,     *)
(* SpecClicks the same with every callback of an extraction delivered,     *)
(* SpecSignIn the same with the sign-in button; SpecBackground is the      *)
(* background script alone, SpecAnswering the same with every callback of  *)
(* a request delivered.                                                    *)
(***************************************************************************)
EXTENDS Integers, Sequences, FiniteSets, TLC

VARIABLES
    str1, str2, simOut,     \* areStringSimilar: the two arguments and the call's result
    bedCard, bedOut,        \* extractBedInfo: the card argument and the call's result
    doc,                    \* the page the content script runs in
    faults,                 \* the operations that throw in this page
    listeners,              \* DOMContentLoaded listeners registered by the script
    reqs,                   \* the messages received so far, with what each caused
    argCard, argNext,       \* one field extractor: the card, its next sibling
    fieldOut,               \* and the call's result
    popup,                  \* the popup's elements: visibility, status, buttons
    flows,                  \* the extractions started by clicks in the popup
    storage,                \* chrome.storage.local
    saves,                  \* the save requests received by the background script
    env                     \* what the browser and Google answer in this run

simVars == <<str1, str2, simOut>>
bedVars == <<bedCard, bedOut>>
pageVars == <<doc, faults, listeners, reqs>>
fieldVars == <<argCard, argNext, fieldOut>>
hostVars == <<popup, flows, storage, saves, env>>
vars == <<str1, str2, simOut, bedCard, bedOut, doc, faults, listeners, reqs,
          argCard, argNext, fieldOut, popup, flows, storage, saves, env>>

(***************************************************************************)
(* Bounds                                                                  *)
(***************************************************************************)
MaxStrLen == 5          \* longest enumerated argument of areStringSimilar
MaxBedLen == 4          \* longest enumerated text of a bed-info child
MaxBody == 2            \* most elements in the enumerated page body
MaxRequests == 2        \* most messages delivered to the content script
MaxRatingLen == 4       \* longest enumerated text of a rating element
MaxClicks == 2          \* most clicks on the extract button
MaxMessages == 2        \* most events handled by the background script

(***************************************************************************)
(* JavaScript string primitives                                            *)
(***************************************************************************)
\* String.prototype.includes: t occurs in s as a contiguous run of characters
includes(s, t) ==
    \E i \in 0..(Len(s) - Len(t)) : SubSeq(s, i + 1, i + Len(t)) = t

abs(n) == IF n < 0 THEN -n ELSE n
min(m, n) == IF m < n THEN m ELSE n
max(m, n) == IF m > n THEN m ELSE n

\* String.prototype.trim: strips white space from both ends
Whitespace == {" ", "\t", "\n"}

RECURSIVE trimStart(_)
trimStart(s) ==
    IF s # <<>> /\ Head(s) \in Whitespace THEN trimStart(Tail(s)) ELSE s

RECURSIVE trimEnd(_)
trimEnd(s) ==
    IF s # <<>> /\ s[Len(s)] \in Whitespace
    THEN trimEnd(SubSeq(s, 1, Len(s) - 1)) ELSE s

trim(s) == trimEnd(trimStart(s))

\* String.prototype.substring(from) and substring(from, to), 0-based, to exclusive
substring(s, from, to) == SubSeq(s, from + 1, to)
substringFrom(s, from) == SubSeq(s, from + 1, Len(s))

\* all strings over alphabet of length 0..n
RECURSIVE StringsUpTo(_, _)
StringsUpTo(alphabet, n) ==
    IF n = 0 THEN {<<>>}
    ELSE LET shorter == StringsUpTo(alphabet, n - 1)
         IN  shorter \cup {Append(s, c) : s \in {t \in shorter : Len(t) = n - 1}, c \in alphabet}

(***************************************************************************)
(* areStringSimilar (content.js 333-354)                                   *)
(***************************************************************************)
\* the for loop of lines 345-350; i is the 0-based loop index
RECURSIVE countMatches(_, _, _, _)
countMatches(s1, s2, i, matches) ==
    IF i < min(Len(s1), Len(s2))
    THEN countMatches(s1, s2, i + 1,
                      IF s1[i + 1] = s2[i + 1] THEN matches + 1 ELSE matches)
    ELSE matches

\* variant: strictly more than 80%
ratioAbove80(matches, longer) == 5 * matches > 4 * longer

\* matches / max >= 0.8 in double arithmetic; for integer operands the
\* quotient is correctly rounded and 0.8 is the double nearest 4/5, so the
\* comparison is the exact rational one
ratioAtLeast80(matches, longer) == 5 * matches >= 4 * longer

\* variant: the length test placed before the containment test
areStringSimilarLengthFirst(s1, s2) ==
    IF abs(Len(s1) - Len(s2)) > 3 THEN FALSE
    ELSE IF includes(s1, s2) \/ includes(s2, s1) THEN TRUE
    ELSE ratioAtLeast80(countMatches(s1, s2, 0, 0), max(Len(s1), Len(s2)))

areStringSimilar(s1, s2) ==
    IF includes(s1, s2) \/ includes(s2, s1) THEN TRUE
    ELSE IF abs(Len(s1) - Len(s2)) > 3 THEN FALSE
    ELSE ratioAtLeast80(countMatches(s1, s2, 0, 0), max(Len(s1), Len(s2)))

(***************************************************************************)
(* The page.  An element records what the selectors of content.js find in  *)
(* it: each ...Els field is the list, in document order, of the texts of   *)
(* the descendants matched by one selector (querySelector takes the first, *)
(* an empty list is a null result).                                        *)
(*   sels          the selectors of findListingCards the element matches   *)
(*   subtitleEls   '[data-testid="listing-card-subtitle"] span, .t6mzqp7'  *)
(*   titleEls      '[data-testid="listing-card-title"]'                    *)
(*   ratingEls     ".r4a59j5, [data-testid*='rating']"                     *)
(*   detailsEls    ".g1qv1ctd": each container is the list of its direct   *)
(*                 children, [div, hidden, text]                           *)
(*   priceEls      "._tt122m, [class*='price'], [class*='total']"          *)
(*   textEls       "div, span"                                             *)
(*   linkEls       'a[href*="/rooms/"]': the href attribute values         *)
(*   wrapper       the element carries class cpj3fk1                       *)
(*   commentEls    "div.nzkbe2g"                                           *)
(*   dateEls       "button.c12tvzjc"                                       *)
(***************************************************************************)
EmptyCard ==
    [sels |-> {}, subtitleEls |-> <<>>, titleEls |-> <<>>, ratingEls |-> <<>>,
     detailsEls |-> <<>>, priceEls |-> <<>>, textEls |-> <<>>, linkEls |-> <<>>,
     wrapper |-> FALSE, commentEls |-> <<>>, dateEls |-> <<>>]

Digits == {"0", "1", "2", "3", "4", "5", "6", "7", "8", "9"}

\* last index of the maximal run of digits that starts at index i (i - 1 when
\* s[i] is no digit): the greedy \d+
RECURSIVE digitRunEnd(_, _)
digitRunEnd(s, i) ==
    IF i <= Len(s) /\ s[i] \in Digits THEN digitRunEnd(s, i + 1) ELSE i - 1

SetMin(S) == CHOOSE m \in S : \A n \in S : m <= n

startsWith(s, prefix) ==
    Len(s) >= Len(prefix) /\ SubSeq(s, 1, Len(prefix)) = prefix

\* s.replace(/^prefix\s*/, "")
stripLeading(s, prefix) ==
    IF startsWith(s, prefix) THEN trimStart(substringFrom(s, Len(prefix))) ELSE s

\* index of the first occurrence of t in s at or after index 1, 0 when none
indexOf(s, t) ==
    LET hits == {i \in 1..(Len(s) - Len(t) + 1) : SubSeq(s, i, i + Len(t) - 1) = t}
    IN  IF hits = {} THEN 0 ELSE SetMin(hits)

(***************************************************************************)
(* Field extractors (content.js 192-467).  Each has its own try/catch:     *)
(* fault says that an operation inside the try block throws, and the catch *)
(* block returns "".                                                       *)
(***************************************************************************)
extractPropertyNameSkipEmpty(card, fault) ==
    IF fault THEN <<>>
    ELSE IF card.subtitleEls # <<>> /\ trim(card.subtitleEls[1]) # <<>>
         THEN trim(card.subtitleEls[1])
    ELSE IF card.titleEls # <<>> THEN trim(card.titleEls[1])
    ELSE <<>>

extractPropertyName(card, fault) ==
    IF fault THEN <<>>
    ELSE IF card.subtitleEls # <<>> THEN trim(card.subtitleEls[1])
    ELSE IF card.titleEls # <<>> THEN trim(card.titleEls[1])
    ELSE <<>>

\* variant: /(\d+\.\d+)/
matchDecimalDotOnly(s) ==
    LET starts == {i \in 1..Len(s) :
                     /\ s[i] \in Digits
                     /\ LET e == digitRunEnd(s, i)
                        IN  /\ e + 2 <= Len(s)
                            /\ s[e + 1] = "."
                            /\ s[e + 2] \in Digits}
    IN  IF starts = {} THEN <<>>
        ELSE LET i == SetMin(starts)
                 e == digitRunEnd(s, i)
             IN  <<SubSeq(s, i, digitRunEnd(s, e + 2))>>

\* ratingText.match(/(\d+[.,]\d+)/): <<>> for null, else <<match[1]>>
matchDecimal(s) ==
    LET starts == {i \in 1..Len(s) :
                     /\ s[i] \in Digits
                     /\ LET e == digitRunEnd(s, i)
                        IN  /\ e + 2 <= Len(s)
                            /\ s[e + 1] \in {".", ","}
                            /\ s[e + 2] \in Digits}
    IN  IF starts = {} THEN <<>>
        ELSE LET i == SetMin(starts)
                 e == digitRunEnd(s, i)
             IN  <<SubSeq(s, i, digitRunEnd(s, e + 2))>>

extractRating(card, fault) ==
    IF fault THEN <<>>
    ELSE IF card.ratingEls # <<>>
         THEN LET match == matchDecimal(trim(card.ratingEls[1]))
              IN  IF match # <<>> THEN match[1] ELSE <<>>
         ELSE <<>>

\* the button.c12tvzjc elements inside the body's elements i.., in document
\* order
RECURSIVE dateButtonsFrom(_, _)
dateButtonsFrom(d, i) ==
    IF i > Len(d.body) THEN <<>>
    ELSE d.body[i].dateEls \o dateButtonsFrom(d, i + 1)

\* document.querySelectorAll("button.c12tvzjc"): d.dateEls are the buttons of
\* the page header, before the body
dateButtons(d) == d.dateEls \o dateButtonsFrom(d, 1)

firstTrimmed(els) == IF els # <<>> THEN trim(els[1]) ELSE <<>>

\* variant: card.querySelector("button.c12tvzjc")
extractDateFromCard(d, card, fault) ==
    IF fault THEN <<>>
    ELSE firstTrimmed(card.dateEls)

\* document.querySelector("button.c12tvzjc"): the card is not consulted
extractDate(d, card, fault) ==
    IF fault THEN <<>>
    ELSE firstTrimmed(dateButtons(d))

\* ":scope > div:not([aria-hidden='true'])"
visibleDivs(container) ==
    SelectSeq(container, LAMBDA child : child.div /\ ~child.hidden)

\* variant: the branches of the duplicate test exchanged
dedupeBedTextInverted(fullText) ==
    IF Len(fullText) % 2 = 0
    THEN LET halfLength == Len(fullText) \div 2
             firstHalf == trim(substring(fullText, 0, halfLength))
             secondHalf == trim(substringFrom(fullText, halfLength))
         IN  IF firstHalf = secondHalf \/ areStringSimilar(firstHalf, secondHalf)
             THEN fullText
             ELSE firstHalf
    ELSE fullText

\* variant: only identical halves are collapsed
dedupeBedTextIdenticalOnly(fullText) ==
    IF Len(fullText) % 2 = 0
    THEN LET halfLength == Len(fullText) \div 2
             firstHalf == trim(substring(fullText, 0, halfLength))
             secondHalf == trim(substringFrom(fullText, halfLength))
         IN  IF firstHalf = secondHalf THEN firstHalf ELSE fullText
    ELSE fullText

\* lines 292-316: the duplicate-text heuristic
dedupeBedText(fullText) ==
    IF Len(fullText) % 2 = 0
    THEN LET halfLength == Len(fullText) \div 2
             firstHalf == trim(substring(fullText, 0, halfLength))
             secondHalf == trim(substringFrom(fullText, halfLength))
         IN  IF firstHalf = secondHalf \/ areStringSimilar(firstHalf, secondHalf)
             THEN firstHalf
             ELSE fullText
    ELSE fullText

extractBedInfo(card, fault) ==
    IF fault THEN <<>>
    ELSE IF card.detailsEls # <<>>
         THEN LET divChildren == visibleDivs(card.detailsEls[1])
              IN  IF Len(divChildren) >= 3
                  THEN dedupeBedText(trim(divChildren[3].text))
                  ELSE <<>>
         ELSE <<>>

s_Gesamtpreis == <<"G", "e", "s", "a", "m", "t", "p", "r", "e", "i", "s", ":">>
s_Insgesamt == <<"I", "n", "s", "g", "e", "s", "a", "m", "t">>

hasCurrency(text) == \E i \in 1..Len(text) : text[i] \in {"€", "$"}

\* the for loop of lines 378-387 over card.querySelectorAll("div, span")
RECURSIVE firstCurrencyText(_)
firstCurrencyText(els) ==
    IF els = <<>> THEN <<>>
    ELSE IF Head(els) # <<>> /\ hasCurrency(Head(els)) THEN trim(Head(els))
    ELSE firstCurrencyText(Tail(els))

\* variant: an empty price text falls back to the currency scan
extractPriceFallbackOnEmpty(card, fault) ==
    IF fault THEN <<>>
    ELSE IF card.priceEls # <<>> /\ trim(card.priceEls[1]) # <<>>
         THEN stripLeading(stripLeading(trim(card.priceEls[1]), s_Gesamtpreis),
                           s_Insgesamt)
         ELSE firstCurrencyText(card.textEls)

\* variant: the second replace is missing
extractPriceOneLabel(card, fault) ==
    IF fault THEN <<>>
    ELSE IF card.priceEls # <<>>
         THEN stripLeading(trim(card.priceEls[1]), s_Gesamtpreis)
         ELSE firstCurrencyText(card.textEls)

extractPrice(card, fault) ==
    IF fault THEN <<>>
    ELSE IF card.priceEls # <<>>
         THEN stripLeading(stripLeading(trim(card.priceEls[1]), s_Gesamtpreis),
                           s_Insgesamt)
         ELSE firstCurrencyText(card.textEls)

s_rooms == <<"/", "r", "o", "o", "m", "s", "/">>
s_base == <<"h", "t", "t", "p", "s", ":", "/", "/", "w", "w", "w", ".",
            "a", "i", "r", "b", "n", "b", ".", "c", "o", "m">>

\* href.match(/\/rooms\/(\d+)/): <<>> for null, else <<match[1]>>
matchRoomId(href) ==
    LET starts == {i \in 1..Len(href) :
                     /\ i + Len(s_rooms) <= Len(href)
                     /\ SubSeq(href, i, i + Len(s_rooms) - 1) = s_rooms
                     /\ href[i + Len(s_rooms)] \in Digits}
    IN  IF starts = {} THEN <<>>
        ELSE LET d == SetMin(starts) + Len(s_rooms)
             IN  <<SubSeq(href, d, digitRunEnd(href, d))>>

\* href.split("?")[0]
beforeQuery(href) ==
    LET q == indexOf(href, <<"?">>)
    IN  IF q = 0 THEN href ELSE SubSeq(href, 1, q - 1)

\* variant: the fallback keeps the query string
extractLinkKeepQuery(card, fault) ==
    IF fault THEN <<>>
    ELSE IF card.linkEls # <<>>
         THEN LET href == card.linkEls[1]
              IN  IF href # <<>>
                  THEN LET roomMatch == matchRoomId(href)
                       IN  IF roomMatch # <<>>
                           THEN s_base \o s_rooms \o roomMatch[1]
                           ELSE s_base \o href
                  ELSE <<>>
         ELSE <<>>

extractLink(card, fault) ==
    IF fault THEN <<>>
    ELSE IF card.linkEls # <<>>
         THEN LET href == card.linkEls[1]
              IN  IF href # <<>>
                  THEN LET roomMatch == matchRoomId(href)
                       IN  IF roomMatch # <<>>
                           THEN s_base \o s_rooms \o roomMatch[1]
                           ELSE s_base \o beforeQuery(href)
                  ELSE <<>>
         ELSE <<>>

s_bearbeiten == <<"b", "e", "a", "r", "b", "e", "i", "t", "e", "n">>

toLowerChar(c) ==
    CASE c = "B" -> "b" [] c = "E" -> "e" [] c = "A" -> "a" [] c = "R" -> "r"
      [] c = "I" -> "i" [] c = "T" -> "t" [] c = "N" -> "n" [] OTHER -> c

toLower(s) == [i \in 1..Len(s) |-> toLowerChar(s[i])]

\* text.replace(/Bearbeiten/i, ""): the first occurrence, whatever its case
removeEditLabel(text) ==
    LET at == indexOf(toLower(text), s_bearbeiten)
    IN  IF at = 0 THEN text
        ELSE SubSeq(text, 1, at - 1) \o substringFrom(text, at - 1 + Len(s_bearbeiten))

\* variant: the marker class of the sibling is not looked at
extractCommentAnySibling(card, next, fault) ==
    IF fault THEN <<>>
    ELSE IF next # <<>> /\ next[1].commentEls # <<>>
         THEN trim(removeEditLabel(next[1].commentEls[1]))
         ELSE <<>>

\* next is card.nextElementSibling: <<>> for null, else <<element>>
extractComment(card, next, fault) ==
    IF fault THEN <<>>
    ELSE LET roomId == IF card.linkEls # <<>> /\ matchRoomId(card.linkEls[1]) # <<>>
                       THEN matchRoomId(card.linkEls[1])[1] ELSE <<>>
         IN  IF next # <<>> /\ next[1].wrapper /\ next[1].commentEls # <<>>
             THEN trim(removeEditLabel(next[1].commentEls[1]))
             ELSE <<>>

(***************************************************************************)
(* The document: readyState, the h1 elements, the "button.c12tvzjc"        *)
(* elements and the body, a list of sibling elements in document order.    *)
(* A located card is the index of its element in the body.                 *)
(***************************************************************************)
EmptyDoc == [readyState |-> "complete", h1Els |-> <<>>, dateEls |-> <<>>, body |-> <<>>]

\* document.querySelectorAll(selector), in document order
querySelectorAll(d, selector) ==
    SelectSeq([i \in 1..Len(d.body) |-> i], LAMBDA i : selector \in d.body[i].sels)

\* card.nextElementSibling: <<>> for null
nextElementSibling(d, i) ==
    IF i < Len(d.body) THEN <<d.body[i + 1]>> ELSE <<>>

\* Faults.  A fault point is <<site, card>>: the sites "name" (the h1 lookup),
\* "handler" (the listener's own statements), "locator" (querySelectorAll)
\* and "assembly" (card.outerHTML of the first card) have card 0; a field
\* name with body index i is a throw inside that extractor for that card.
Fields == {"propertyName", "rating", "date", "beds", "totalPrice", "link", "comment"}

FaultMessage(site) ==
    CASE site = "handler" -> "Cannot read properties of null (reading 'readyState')"
      [] site = "locator" -> "Failed to execute 'querySelectorAll' on 'Document'"
      [] site = "assembly" -> "Cannot read properties of undefined (reading 'substring')"
      [] OTHER -> "Cannot read properties of null"

Normal(v) == [threw |-> FALSE, value |-> v]
Throw(m) == [threw |-> TRUE, msg |-> m]

\* error.message || "Unknown error occurred during extraction"
errorText(msg) ==
    IF msg = "" THEN "Unknown error occurred during extraction" ELSE msg

FailureResponse(text) == [success |-> FALSE, error |-> text]

(***************************************************************************)
(* extractWishlistName (content.js 56-66)                                  *)
(***************************************************************************)
s_AirbnbWishlist == <<"A", "i", "r", "b", "n", "b", " ", "W", "i", "s", "h", "l", "i", "s", "t">>

\* variant: without the || "Airbnb Wishlist" of line 59
extractWishlistNameNoDefault(d, flt) ==
    IF <<"name", 0>> \in flt THEN s_AirbnbWishlist
    ELSE IF d.h1Els # <<>> THEN trim(d.h1Els[1])
    ELSE s_AirbnbWishlist

extractWishlistName(d, flt) ==
    IF <<"name", 0>> \in flt THEN s_AirbnbWishlist
    ELSE IF d.h1Els # <<>> /\ trim(d.h1Els[1]) # <<>> THEN trim(d.h1Els[1])
    ELSE s_AirbnbWishlist

(***************************************************************************)
(* findListingCards (content.js 112-140)                                   *)
(***************************************************************************)
selectors ==
    <<"[data-testid=\"card-container\"]", ".cy5jw6o[role=\"group\"]",
      ".wishlist-card", ".wishlistCard", "div[role=\"group\"]">>

\* the for loop of lines 125-137; k is the 1-based position in selectors;
\* queried counts the querySelectorAll calls made
RECURSIVE findLoop(_, _)
findLoop(d, k) ==
    IF k > Len(selectors) THEN [cards |-> <<>>, queried |-> k - 1]
    ELSE LET elements == querySelectorAll(d, selectors[k])
         IN  IF Len(elements) > 0
             THEN [cards |-> elements, queried |-> k]
             ELSE findLoop(d, k + 1)

\* variant: the loop lacks the break, so the last matching selector wins
RECURSIVE findLoopNoBreak(_, _, _)
findLoopNoBreak(d, k, found) ==
    IF k > Len(selectors) THEN [cards |-> found, queried |-> k - 1]
    ELSE LET elements == querySelectorAll(d, selectors[k])
         IN  findLoopNoBreak(d, k + 1, IF Len(elements) > 0 THEN elements ELSE found)

findListingCardsNoBreak(d, flt) ==
    IF <<"locator", 0>> \in flt THEN Throw(FaultMessage("locator"))
    ELSE Normal(findLoopNoBreak(d, 1, <<>>))

findListingCards(d, flt) ==
    IF <<"locator", 0>> \in flt THEN Throw(FaultMessage("locator"))
    ELSE Normal(findLoop(d, 1))

(***************************************************************************)
(* handleNoListingsFound (content.js 146-162); the querySelector("main")   *)
(* it makes only feeds the console                                         *)
(***************************************************************************)
\* variant: an empty page is reported as a success without records
handleNoListingsFoundAsSuccess ==
    [success |-> TRUE, data |-> <<>>, wishlistName |-> <<>>]

handleNoListingsFound ==
    FailureResponse("No listing cards found. Please refresh the page and try again.")

(***************************************************************************)
(* extractListingData (content.js 170-185); i is the card, index its       *)
(* 0-based position among the located cards                                *)
(***************************************************************************)
\* variant: a throwing extractor is not caught, so the throw leaves the record
extractListingDataUnguarded(d, flt, i, index) ==
    IF index = 0 /\ <<"assembly", 0>> \in flt THEN Throw(FaultMessage("assembly"))
    ELSE IF \E f \in Fields : <<f, i>> \in flt THEN Throw(FaultMessage("field"))
    ELSE Normal(
        [propertyName |-> extractPropertyName(d.body[i], FALSE),
         rating |-> extractRating(d.body[i], FALSE),
         date |-> extractDate(d, d.body[i], FALSE),
         beds |-> extractBedInfo(d.body[i], FALSE),
         totalPrice |-> extractPrice(d.body[i], FALSE),
         link |-> extractLink(d.body[i], FALSE),
         comment |-> extractComment(d.body[i], nextElementSibling(d, i), FALSE)])

\* variant: the name is read only for a card that has a rating
extractListingDataNameAfterRating(d, flt, i, index) ==
    IF index = 0 /\ <<"assembly", 0>> \in flt THEN Throw(FaultMessage("assembly"))
    ELSE Normal(
        [propertyName |-> IF extractRating(d.body[i], <<"rating", i>> \in flt) = <<>>
                          THEN <<>>
                          ELSE extractPropertyName(d.body[i], <<"propertyName", i>> \in flt),
         rating |-> extractRating(d.body[i], <<"rating", i>> \in flt),
         date |-> extractDate(d, d.body[i], <<"date", i>> \in flt),
         beds |-> extractBedInfo(d.body[i], <<"beds", i>> \in flt),
         totalPrice |-> extractPrice(d.body[i], <<"totalPrice", i>> \in flt),
         link |-> extractLink(d.body[i], <<"link", i>> \in flt),
         comment |-> extractComment(d.body[i], nextElementSibling(d, i),
                                    <<"comment", i>> \in flt)])

extractListingData(d, flt, i, index) ==
    IF index = 0 /\ <<"assembly", 0>> \in flt THEN Throw(FaultMessage("assembly"))
    ELSE Normal(
        [propertyName |-> extractPropertyName(d.body[i], <<"propertyName", i>> \in flt),
         rating |-> extractRating(d.body[i], <<"rating", i>> \in flt),
         date |-> extractDate(d, d.body[i], <<"date", i>> \in flt),
         beds |-> extractBedInfo(d.body[i], <<"beds", i>> \in flt),
         totalPrice |-> extractPrice(d.body[i], <<"totalPrice", i>> \in flt),
         link |-> extractLink(d.body[i], <<"link", i>> \in flt),
         comment |-> extractComment(d.body[i], nextElementSibling(d, i),
                                    <<"comment", i>> \in flt)])

(***************************************************************************)
(* extractAndSendListingData (content.js 73-106).  The result of a run:    *)
(* the responses passed to sendResponse, whether an exception left the     *)
(* function, and what the run did (calls of findListingCards, the cards    *)
(* and the number of selectors queried, calls of field extractors).        *)
(***************************************************************************)
NoRun ==
    [threw |-> FALSE, msg |-> "", responses |-> <<>>, locatorRuns |-> 0,
     located |-> <<>>, queried |-> 0, extractorCalls |-> 0]

\* variant: map skips the first located card
RECURSIVE mapCardsSkipFirst(_, _, _, _, _)
mapCardsSkipFirst(d, flt, cards, index, acc) ==
    IF index >= Len(cards) THEN Normal(acc)
    ELSE IF index = 0 THEN mapCardsSkipFirst(d, flt, cards, index + 1, acc)
    ELSE mapCardsSkipFirst(d, flt, cards, index + 1,
             Append(acc, extractListingData(d, flt, cards[index + 1], index).value))

\* listingCards.map((card, index) => extractListingData(card, index)); a
\* throw of the callback ends the map
RECURSIVE mapCards(_, _, _, _, _)
RECURSIVE mapNext(_, _, _, _, _, _)
mapCards(d, flt, cards, index, acc) ==
    IF index >= Len(cards) THEN Normal(acc)
    ELSE mapNext(d, flt, cards, index, acc,
                 extractListingData(d, flt, cards[index + 1], index))

mapNext(d, flt, cards, index, acc, r) ==
    IF r.threw THEN r
    ELSE mapCards(d, flt, cards, index + 1, Append(acc, r.value))

\* lines 91-98: the records are sent
sendRecords(ran, wishlistName, wishlistData) ==
    IF wishlistData.threw
    THEN [ran EXCEPT !.threw = TRUE, !.msg = wishlistData.msg]
    ELSE [ran EXCEPT
            !.extractorCalls = 7 * Len(wishlistData.value),
            !.responses = <<[success |-> TRUE,
                             data |-> wishlistData.value,
                             wishlistName |-> wishlistName]>>]

\* lines 78-98: found is what findListingCards returned or threw
afterLocate(d, flt, wishlistName, found) ==
    IF found.threw
    THEN [NoRun EXCEPT !.threw = TRUE, !.msg = found.msg, !.locatorRuns = 1]
    ELSE IF Len(found.value.cards) = 0
    THEN [NoRun EXCEPT !.locatorRuns = 1, !.queried = found.value.queried,
                       !.responses = <<handleNoListingsFound>>]
    ELSE sendRecords([NoRun EXCEPT !.locatorRuns = 1,
                                   !.located = found.value.cards,
                                   !.queried = found.value.queried],
                     wishlistName,
                     mapCards(d, flt, found.value.cards, 0, <<>>))

\* the try block, lines 74-98
extractAndSendTry(d, flt, wishlistName) ==
    afterLocate(d, flt, wishlistName, findListingCards(d, flt))

\* variant: the catch block only logs the error
catchAndLog(run) ==
    IF run.threw THEN [run EXCEPT !.threw = FALSE] ELSE run

\* a catch block that answers with the error's message (lines 99-105, 41-47)
catchAndRespond(run) ==
    IF run.threw
    THEN [run EXCEPT !.threw = FALSE,
                     !.responses = Append(run.responses,
                                          FailureResponse(errorText(run.msg)))]
    ELSE run

\* variant: the function lacks its catch block
extractAndSendListingDataNoCatch(d, flt, wishlistName) ==
    extractAndSendTry(d, flt, wishlistName)

extractAndSendListingData(d, flt, wishlistName) ==
    catchAndRespond(extractAndSendTry(d, flt, wishlistName))

(***************************************************************************)
(* Specification SpecSimilar: areStringSimilar applied to enumerated pairs *)
(***************************************************************************)
SimAlphabet == {"a", "b"}

s_ab == <<"a", "b">>
s_abcdefg == <<"a", "b", "c", "d", "e", "f", "g">>
s_abc == <<"a", "b", "c">>
s_xyz == <<"x", "y", "z">>
s_12beds == <<"1", "2", " ", "b", "e", "d", "s">>

ExampleStrings == {s_ab, s_abcdefg, s_abc, s_xyz, s_12beds}

SimStrings == StringsUpTo(SimAlphabet, MaxStrLen) \cup ExampleStrings

NoCall == [done |-> FALSE, value |-> FALSE]
NoText == [done |-> FALSE, value |-> <<>>]
Returned(v) == [done |-> TRUE, value |-> v]

(***************************************************************************)
(* The host: the popup (src/unnamed/part_001, src/popup.html) and the      *)
(* background script (src/unnamed/part_002).  A text of the host is a      *)
(* sequence of strings to be read one after the other; texts that the code *)
(* searches are spelled character by character.  Below, the host before    *)
(* anything ran: the popup as popup.html declares it, an empty storage.    *)
(***************************************************************************)
NoStatus == [text |-> <<>>, type |-> ""]

PopupAtLoad ==
    [initialized |-> FALSE,
     loginStatus |-> TRUE, extractionControls |-> FALSE, spreadsheetUrl |-> FALSE,
     dataUrl |-> <<>>, status |-> NoStatus,
     extractDisabled |-> FALSE, extractLabel |-> <<"Extract Wishlist Data">>,
     authorizeDisabled |-> FALSE,
     opened |-> <<>>]

EmptyStorage == [token |-> <<>>, spreadsheetId |-> <<>>, spreadsheetUrl |-> <<>>]

\* a fault is <<site, outcome, click>>: what the browser or Google answers at
\* one site during the extraction started by one click
NoFault == <<"", "", 0>>

QuietEnv ==
    [resident |-> FALSE, fault |-> NoFault, reply |-> [success |-> FALSE],
     clearFails |-> FALSE]

HostIdle ==
    /\ popup = PopupAtLoad
    /\ flows = <<>>
    /\ storage = EmptyStorage
    /\ saves = <<>>
    /\ env = QuietEnv

SimInit ==
    /\ str1 \in SimStrings
    /\ str2 \in SimStrings
    /\ simOut = NoCall
    /\ bedCard = EmptyCard
    /\ bedOut = NoText
    /\ doc = EmptyDoc
    /\ faults = {}
    /\ listeners = <<>>
    /\ HostIdle
    /\ reqs = <<>>
    /\ argCard = EmptyCard
    /\ argNext = <<>>
    /\ fieldOut = NoText

CallAreStringSimilar ==
    /\ ~simOut.done
    /\ simOut' = Returned(areStringSimilar(str1, str2))
    /\ UNCHANGED <<str1, str2, bedVars, pageVars, fieldVars, hostVars>>

SimNext == CallAreStringSimilar

SpecSimilar == SimInit /\ [][SimNext]_vars

(***************************************************************************)
(* Specification SpecBeds: extractBedInfo applied to enumerated cards      *)
(***************************************************************************)
BedAlphabet == {"a", "b", " "}

s_2beds2beds == <<"2", " ", "b", "e", "d", "s", "2", " ", "b", "e", "d", "s">>
s_2beds == <<"2", " ", "b", "e", "d", "s">>
s_3bedrooms == <<"3", " ", "b", "e", "d", "r", "o", "o", "m", "s">>
s_1bed2baths == <<"1", " ", "b", "e", "d", "2", " ", "b", "a", "t", "h", "s">>
s_aaaabaaaaa == <<"a", "a", "a", "a", "b", "a", "a", "a", "a", "a">>

BedExamples == {s_2beds2beds, s_3bedrooms, s_1bed2baths, s_aaaabaaaaa}

BedTexts == StringsUpTo(BedAlphabet, MaxBedLen) \cup BedExamples

shownDiv == [div |-> TRUE, hidden |-> FALSE, text |-> <<"x">>]
hiddenDiv == [div |-> TRUE, hidden |-> TRUE, text |-> <<"h">>]
spanChild == [div |-> FALSE, hidden |-> FALSE, text |-> <<"s">>]

\* the children of the details container that precede the enumerated one
ChildPrefixes ==
    {<<shownDiv, shownDiv>>, <<shownDiv, hiddenDiv, shownDiv>>,
     <<spanChild, shownDiv, shownDiv>>, <<shownDiv>>}

BedCards ==
    {EmptyCard} \cup
    {[EmptyCard EXCEPT !.detailsEls =
          <<prefix \o <<[div |-> TRUE, hidden |-> FALSE, text |-> t]>>
                   \o <<shownDiv>> >>] :
        prefix \in ChildPrefixes, t \in BedTexts}

BedInit ==
    /\ bedCard \in BedCards
    /\ bedOut = NoText
    /\ str1 = <<>>
    /\ str2 = <<>>
    /\ simOut = NoCall
    /\ doc = EmptyDoc
    /\ faults = {}
    /\ listeners = <<>>
    /\ HostIdle
    /\ reqs = <<>>
    /\ argCard = EmptyCard
    /\ argNext = <<>>
    /\ fieldOut = NoText

CallExtractBedInfo ==
    /\ ~bedOut.done
    /\ bedOut' = Returned(extractBedInfo(bedCard, FALSE))
    /\ UNCHANGED <<bedCard, simVars, pageVars, fieldVars, hostVars>>

BedNext == CallExtractBedInfo

SpecBeds == BedInit /\ [][BedNext]_vars

(***************************************************************************)
(* Specifications of single field extractors.  The variables of the other  *)
(* specifications rest at the values below.                                *)
(***************************************************************************)
RestOfSingleExtractor ==
    /\ fieldOut = NoText
    /\ str1 = <<>>
    /\ str2 = <<>>
    /\ simOut = NoCall
    /\ bedCard = EmptyCard
    /\ bedOut = NoText
    /\ doc = EmptyDoc
    /\ faults = {}
    /\ listeners = <<>>
    /\ HostIdle
    /\ reqs = <<>>

OtherVars == <<argCard, argNext, simVars, bedVars, pageVars, hostVars>>

(***************************************************************************)
(* Specification SpecPrice: extractPrice applied to enumerated cards       *)
(***************************************************************************)
s_Total == <<"T", "o", "t", "a", "l", ":">>
s_eur540 == <<"€", "5", "4", "0">>
s_usd9 == <<"$", "9">>
s_GesamtpreisEur540 == s_Gesamtpreis \o <<" ">> \o s_eur540

PriceLabels == {<<>>, s_Total, s_Gesamtpreis, s_Insgesamt}

\* texts of a price element: white space, up to two labels, an amount
PriceTexts ==
    {lead \o first \o gap \o second \o amount :
        lead \in {<<>>, <<" ">>}, first \in PriceLabels, gap \in {<<>>, <<" ">>},
        second \in PriceLabels, amount \in {s_eur540, s_usd9, <<>>}}

\* the texts of the div and span descendants
PriceTextEls ==
    {<<>>, <<s_2beds>>, <<s_2beds, <<" ">> \o s_usd9 \o <<" ">>, s_eur540>>,
     <<<<>>, s_Total \o <<" ">> \o s_eur540>>, <<s_usd9, s_eur540>>}

PriceCards ==
    {[EmptyCard EXCEPT !.priceEls = els, !.textEls = texts] :
        els \in {<<>>} \cup {<<t>> : t \in PriceTexts}
                       \cup {<<t, s_usd9>> : t \in {<<>>, s_GesamtpreisEur540}},
        texts \in PriceTextEls}

PriceInit ==
    /\ argCard \in PriceCards
    /\ argNext = <<>>
    /\ RestOfSingleExtractor

CallExtractPrice ==
    /\ ~fieldOut.done
    /\ fieldOut' = Returned(extractPrice(argCard, FALSE))
    /\ UNCHANGED OtherVars

PriceNext == CallExtractPrice

SpecPrice == PriceInit /\ [][PriceNext]_vars

(***************************************************************************)
(* Specification SpecLink: extractLink applied to enumerated cards         *)
(***************************************************************************)
s_12345678 == <<"1", "2", "3", "4", "5", "6", "7", "8">>
s_sourceWishlist == <<"?", "s", "o", "u", "r", "c", "e", "=", "w", "i", "s", "h", "l", "i", "s", "t">>
s_hrefExample == s_rooms \o s_12345678 \o s_sourceWishlist
s_canonicalExample == s_base \o s_rooms \o s_12345678

\* href values that contain "/rooms/": a prefix, the marker, what follows it
Hrefs ==
    {pre \o s_rooms \o id \o tail :
        pre \in {<<>>, <<"/", "d", "e">>, <<"h", "t", "t", "p", "s", ":", "/", "/", "a", ".", "d", "e">>},
        id \in {s_12345678, <<"7">>, <<"p", "l", "u", "s">>, <<>>, <<"7", "a">>},
        tail \in {<<>>, s_sourceWishlist, s_rooms \o <<"3", "4">>,
                  <<"?", "a", "?", "b">>}}

LinkCards ==
    {[EmptyCard EXCEPT !.linkEls = els] :
        els \in {<<>>} \cup {<<h>> : h \in Hrefs} \cup {<<h, s_hrefExample>> : h \in Hrefs}}

LinkInit ==
    /\ argCard \in LinkCards
    /\ argNext = <<>>
    /\ RestOfSingleExtractor

CallExtractLink ==
    /\ ~fieldOut.done
    /\ fieldOut' = Returned(extractLink(argCard, FALSE))
    /\ UNCHANGED OtherVars

LinkNext == CallExtractLink

SpecLink == LinkInit /\ [][LinkNext]_vars

(***************************************************************************)
(* Specification SpecComment: extractComment applied to enumerated cards   *)
(* and next siblings                                                       *)
(***************************************************************************)
s_Bearbeiten == <<"B", "e", "a", "r", "b", "e", "i", "t", "e", "n">>
s_BEARBEITEN == <<"B", "E", "A", "R", "B", "E", "I", "T", "E", "N">>

\* texts of a comment element: the comment, the label of the edit button in
\* some case, more text, possibly the label again
CommentTexts ==
    {pre \o label \o mid \o again :
        pre \in {<<>>, <<" ">>, <<"H", "i", " ">>},
        label \in {<<>>, s_Bearbeiten, s_BEARBEITEN, s_bearbeiten},
        mid \in {<<>>, <<" ", "o", "k", " ">>},
        again \in {<<>>, s_Bearbeiten}}

\* the element after the card: none, or one with or without the marker class
\* cpj3fk1 and with or without div.nzkbe2g descendants
CommentSiblings ==
    {<<>>} \cup
    {<<[EmptyCard EXCEPT !.wrapper = w, !.commentEls = els]>> :
        w \in BOOLEAN,
        els \in {<<>>} \cup {<<t>> : t \in CommentTexts}
                       \cup {<<t, <<"x">>>> : t \in {<<>>, s_Bearbeiten}}}

CommentCards ==
    {[EmptyCard EXCEPT !.linkEls = els] :
        els \in {<<>>, <<s_rooms \o <<"1", "2">>>>, <<s_rooms \o <<"p", "l", "u", "s">>>>}}

CommentInit ==
    /\ argCard \in CommentCards
    /\ argNext \in CommentSiblings
    /\ RestOfSingleExtractor

CallExtractComment ==
    /\ ~fieldOut.done
    /\ fieldOut' = Returned(extractComment(argCard, argNext, FALSE))
    /\ UNCHANGED OtherVars

CommentNext == CallExtractComment

SpecComment == CommentInit /\ [][CommentNext]_vars

(***************************************************************************)
(* Specification SpecRating: extractRating applied to enumerated cards     *)
(***************************************************************************)
RatingAlphabet == {"4", "9", ".", ",", "x"}
s_rating492 == <<"4", ",", "9", "2", " ", "(", "1", "2", ")">>
s_5 == <<"5">>

RatingTexts ==
    StringsUpTo(RatingAlphabet, MaxRatingLen)
        \cup {s_rating492, s_5, <<"N", "e", "w">>, <<" ", "4", ".", "9", "4", ".", "9">>}

RatingCards ==
    {[EmptyCard EXCEPT !.ratingEls = els] :
        els \in {<<>>} \cup {<<t>> : t \in RatingTexts}
                       \cup {<<t, <<"4", ".", "9">>>> : t \in {<<>>, s_5}}}

RatingInit ==
    /\ argCard \in RatingCards
    /\ argNext = <<>>
    /\ RestOfSingleExtractor

CallExtractRating ==
    /\ ~fieldOut.done
    /\ fieldOut' = Returned(extractRating(argCard, FALSE))
    /\ UNCHANGED OtherVars

RatingNext == CallExtractRating

SpecRating == RatingInit /\ [][RatingNext]_vars

(***************************************************************************)
(* Specification SpecName: extractPropertyName applied to enumerated cards *)
(***************************************************************************)
NameTexts == {<<>>, <<" ">>, <<" ", "A", " ">>, <<"B">>}

\* the elements a selector finds in the card, in document order
NameEls == {<<>>} \cup {<<t>> : t \in NameTexts} \cup {<<t, u>> : t, u \in NameTexts}

NameCards ==
    {[EmptyCard EXCEPT !.subtitleEls = subs, !.titleEls = titles] :
        subs \in NameEls, titles \in NameEls}

NameInit ==
    /\ argCard \in NameCards
    /\ argNext = <<>>
    /\ RestOfSingleExtractor

CallExtractPropertyName ==
    /\ ~fieldOut.done
    /\ fieldOut' = Returned(extractPropertyName(argCard, FALSE))
    /\ UNCHANGED OtherVars

NameNext == CallExtractPropertyName

SpecName == NameInit /\ [][NameNext]_vars

(***************************************************************************)
(* The chrome.runtime.onMessage listener (content.js 12-50).  A request is *)
(* recorded with the document state it met, the wishlist name resolved for *)
(* it, whether its extraction was deferred to DOMContentLoaded, what its   *)
(* run did, the number of responses sent before the listener returned, and *)
(* whether an exception left the listener or the DOMContentLoaded callback.*)
(***************************************************************************)
PingAction == "ping"
ExtractAction == "extractWishlistData"

\* variant: a ping that arrives while the document loads gets no response
pingRequestWhenLoaded(d) ==
    [action |-> PingAction, loading |-> d.readyState = "loading", deferred |-> FALSE,
     wishlistName |-> <<>>,
     run |-> IF d.readyState = "loading" THEN NoRun
             ELSE [NoRun EXCEPT !.responses = <<[success |-> TRUE]>>],
     sync |-> IF d.readyState = "loading" THEN 0 ELSE 1, escaped |-> FALSE]

pingRequest(d) ==
    [action |-> PingAction, loading |-> d.readyState = "loading", deferred |-> FALSE,
     wishlistName |-> <<>>,
     run |-> [NoRun EXCEPT !.responses = <<[success |-> TRUE]>>],
     sync |-> 1, escaped |-> FALSE]

\* the record of an extraction request once the listener has returned
extractRecord(d, wishlistName, defer, run) ==
    [action |-> ExtractAction, loading |-> d.readyState = "loading",
     deferred |-> defer, wishlistName |-> wishlistName, run |-> run,
     sync |-> Len(run.responses), escaped |-> FALSE]

\* variant: the listener does not wait for the document to load
tryExtractNoWait(d, flt, wishlistName) ==
    IF <<"handler", 0>> \in flt
    THEN [NoRun EXCEPT !.threw = TRUE, !.msg = FaultMessage("handler")]
    ELSE extractAndSendListingData(d, flt, wishlistName)

\* the try block of lines 27-40 with the name resolved at line 29
tryExtract(d, flt, wishlistName) ==
    IF <<"handler", 0>> \in flt
    THEN [NoRun EXCEPT !.threw = TRUE, !.msg = FaultMessage("handler")]
    ELSE IF d.readyState = "loading" THEN NoRun
    ELSE extractAndSendListingData(d, flt, wishlistName)

\* lines 23-49
extractRequest(d, flt) ==
    extractRecord(d, extractWishlistName(d, flt),
                  <<"handler", 0>> \notin flt /\ d.readyState = "loading",
                  catchAndRespond(tryExtract(d, flt, extractWishlistName(d, flt))))

\* the listener's result for request r when its deferred run ends as run
afterDeferred(r, run) ==
    [r EXCEPT !.run = [run EXCEPT !.threw = FALSE], !.escaped = run.threw]

\* variant: the callback reads the heading again
deferredRunResolvingName(d, flt, r) ==
    afterDeferred(r, extractAndSendListingData(d, flt, extractWishlistName(d, flt)))

\* the callback of lines 34-36, run for request r when DOMContentLoaded fires
deferredRun(d, flt, r) ==
    afterDeferred(r, extractAndSendListingData(d, flt, r.wishlistName))

(***************************************************************************)
(* Enumerated pages                                                        *)
(***************************************************************************)
s_Loft == <<" ", "L", "o", "f", "t", " ">>
s_Flat == <<"F", "l", "a", "t">>
s_Hut == <<"H", "u", "t">>
s_Inn == <<"I", "n", "n">>
s_rating49 == <<"4", ",", "9", " ", "(", "3", ")">>
s_New == <<"N", "e", "w">>
s_1bed1bed == <<"1", " ", "b", "e", "d", "1", " ", "b", "e", "d">>
s_price54 == <<"G", "e", "s", "a", "m", "t", "p", "r", "e", "i", "s", ":", " ", "€", "5", "4">>
s_usd80 == <<"$", "8", "0", " ">>
s_href12 == <<"/", "r", "o", "o", "m", "s", "/", "1", "2", "?", "s", "=", "w">>
s_hrefPlus == <<"/", "r", "o", "o", "m", "s", "/", "p", "l", "u", "s", "?", "x">>
s_note == <<"o", "k", " ", "B", "e", "a", "r", "b", "e", "i", "t", "e", "n">>
s_Trips == <<" ", "T", "r", "i", "p", "s", " ">>
s_May == <<"1", "-", "5", " ", "M", "a", "y">>
s_Jun == <<" ", "2", "-", "3", " ", "J", "u", "n">>

cardFull ==
    [EmptyCard EXCEPT
        !.sels = {selectors[1], selectors[5]},
        !.subtitleEls = <<s_Loft>>,
        !.titleEls = <<s_Flat>>,
        !.ratingEls = <<s_rating49>>,
        !.detailsEls = <<<<shownDiv, hiddenDiv, shownDiv,
                           [div |-> TRUE, hidden |-> FALSE, text |-> s_1bed1bed]>>>>,
        !.priceEls = <<s_price54>>,
        !.textEls = <<s_Loft, s_price54>>,
        !.linkEls = <<s_href12>>]

cardBare ==
    [EmptyCard EXCEPT
        !.sels = {selectors[2], selectors[5]},
        !.titleEls = <<s_Hut>>,
        !.textEls = <<s_Hut, s_usd80>>,
        !.linkEls = <<s_hrefPlus>>,
        !.dateEls = <<s_Jun>>]

cardOld ==
    [EmptyCard EXCEPT
        !.sels = {selectors[3], selectors[4]},
        !.subtitleEls = <<s_Inn>>,
        !.ratingEls = <<s_New>>]

groupDiv == [EmptyCard EXCEPT !.sels = {selectors[5]}]

commentWrapper == [EmptyCard EXCEPT !.wrapper = TRUE, !.commentEls = <<s_note>>]

Catalog == {cardFull, cardBare, cardOld, groupDiv, commentWrapper}

\* the page header: without heading and date control, with both, or with a
\* heading of blank text
Headers == {[h1Els |-> <<>>, dateEls |-> <<>>],
            [h1Els |-> <<s_Trips>>, dateEls |-> <<s_May>>],
            [h1Els |-> <<<<" ">>, s_Trips>>, dateEls |-> <<>>]}

Pages ==
    {[readyState |-> r, h1Els |-> h.h1Els, dateEls |-> h.dateEls, body |-> b] :
        r \in {"loading", "complete"}, h \in Headers, b \in StringsUpTo(Catalog, MaxBody)}

\* the environments enumerated: no throw, one throwing site, one throwing
\* extractor for one card, every extractor throwing for one card
FaultPlans(d) ==
    {{}} \cup {{<<site, 0>>} : site \in {"name", "handler", "locator", "assembly"}}
         \cup {{<<f, i>>} : f \in Fields, i \in 1..Len(d.body)}
         \cup {{<<f, i>> : f \in Fields} : i \in 1..Len(d.body)}

(***************************************************************************)
(* Specification Spec: the content script serving messages in one page     *)
(***************************************************************************)
Init ==
    /\ doc \in Pages
    /\ faults \in FaultPlans(doc)
    /\ listeners = <<>>
    /\ HostIdle
    /\ reqs = <<>>
    /\ str1 = <<>>
    /\ str2 = <<>>
    /\ simOut = NoCall
    /\ bedCard = EmptyCard
    /\ bedOut = NoText
    /\ argCard = EmptyCard
    /\ argNext = <<>>
    /\ fieldOut = NoText

\* a { action: "ping" } message arrives
ReceivePing ==
    /\ Len(reqs) < MaxRequests
    /\ reqs' = Append(reqs, pingRequest(doc))
    /\ UNCHANGED <<doc, faults, listeners, simVars, bedVars, fieldVars, hostVars>>

\* variant: an extraction takes the elements it has read out of the page
ReceiveExtractTakingCards ==
    /\ Len(reqs) < MaxRequests
    /\ reqs' = Append(reqs, extractRequest(doc, faults))
    /\ listeners' = IF reqs'[Len(reqs')].deferred
                    THEN Append(listeners, Len(reqs'))
                    ELSE listeners
    /\ doc' = IF reqs'[Len(reqs')].deferred THEN doc ELSE [doc EXCEPT !.body = <<>>]
    /\ UNCHANGED <<faults, simVars, bedVars, fieldVars, hostVars>>

\* a { action: "extractWishlistData" } message arrives
ReceiveExtract ==
    /\ Len(reqs) < MaxRequests
    /\ reqs' = Append(reqs, extractRequest(doc, faults))
    /\ listeners' = IF reqs'[Len(reqs')].deferred
                    THEN Append(listeners, Len(reqs'))
                    ELSE listeners
    /\ UNCHANGED <<doc, faults, simVars, bedVars, fieldVars, hostVars>>

\* the document finishes parsing: every registered listener runs, in order
DOMContentLoaded ==
    /\ doc.readyState = "loading"
    /\ doc' = [doc EXCEPT !.readyState = "interactive"]
    /\ reqs' = [k \in 1..Len(reqs) |->
                   IF \E j \in 1..Len(listeners) : listeners[j] = k
                   THEN deferredRun(doc', faults, reqs[k])
                   ELSE reqs[k]]
    /\ UNCHANGED <<faults, listeners, simVars, bedVars, fieldVars, hostVars>>

Next == ReceivePing \/ ReceiveExtract \/ DOMContentLoaded

Spec == Init /\ [][Next]_vars

\* the load-completion step, as seen on the document alone
LoadCompletes ==
    /\ doc.readyState = "loading"
    /\ doc' = [doc EXCEPT !.readyState = "interactive"]

(***************************************************************************)
(* Specification SpecLive: the content script in a few pages, one for each *)
(* path of a run, with the load-completion event firing eventually         *)
(***************************************************************************)
LivePages ==
    {[EmptyDoc EXCEPT !.readyState = r, !.body = b] :
        r \in {"loading", "complete"},
        b \in {<<>>, <<cardFull>>, <<cardBare, cardBare>>}}

LiveFaults == {{}, {<<"handler", 0>>}, {<<"locator", 0>>}, {<<"assembly", 0>>}}

LiveInit ==
    /\ doc \in LivePages
    /\ faults \in LiveFaults
    /\ listeners = <<>>
    /\ HostIdle
    /\ reqs = <<>>
    /\ str1 = <<>>
    /\ str2 = <<>>
    /\ simOut = NoCall
    /\ bedCard = EmptyCard
    /\ bedOut = NoText
    /\ argCard = EmptyCard
    /\ argNext = <<>>
    /\ fieldOut = NoText

SpecLive == LiveInit /\ [][Next]_vars /\ WF_doc(LoadCompletes)

(***************************************************************************)
(* Specification SpecLoading: the content script in a document that is     *)
(* still being parsed; the heading of the page may appear between the      *)
(* arrival of a request and the load-completion event.                     *)
(***************************************************************************)
LoadingInit ==
    /\ Init
    /\ doc.readyState = "loading"

\* the parser reaches the h1 of the page
HeadingRendered ==
    /\ doc.readyState = "loading"
    /\ doc.h1Els = <<>>
    /\ doc' = [doc EXCEPT !.h1Els = <<s_Trips>>]
    /\ UNCHANGED <<faults, listeners, reqs, simVars, bedVars, fieldVars, hostVars>>

LoadingNext == ReceivePing \/ ReceiveExtract \/ HeadingRendered \/ DOMContentLoaded

SpecLoading == LoadingInit /\ [][LoadingNext]_vars

(***************************************************************************)
(* Specification SpecRecord: one extraction run over cards given by their  *)
(* descendants.  A card holds up to two span elements, directly or inside  *)
(* one div; each span carries the marks that make selectors match it.  The *)
(* textContent of the div is the concatenation of the texts of its spans.  *)
(***************************************************************************)
ratingSpan == [marks |-> {"rating"}, text |-> s_rating49]
priceSpan == [marks |-> {"price"}, text |-> s_price54]
subtitleSpan == [marks |-> {"subtitle"}, text |-> s_Loft]
plainSpan == [marks |-> {}, text |-> s_usd80]

Spans == {ratingSpan, priceSpan, subtitleSpan, plainSpan}

CardTrees ==
    [wrapped : BOOLEAN,
     children : {<<>>} \cup {<<a>> : a \in Spans} \cup {<<a, b>> : a, b \in Spans}]

RECURSIVE textsOf(_, _, _)
textsOf(children, mark, i) ==
    IF i > Len(children) THEN <<>>
    ELSE (IF mark = "" \/ mark \in children[i].marks THEN <<children[i].text>> ELSE <<>>)
             \o textsOf(children, mark, i + 1)

RECURSIVE textContent(_, _)
textContent(children, i) ==
    IF i > Len(children) THEN <<>>
    ELSE children[i].text \o textContent(children, i + 1)

\* what the selectors of the extractors find in the card of a tree
cardOf(tree) ==
    [EmptyCard EXCEPT
        !.sels = {selectors[1]},
        !.subtitleEls = textsOf(tree.children, "subtitle", 1),
        !.ratingEls = textsOf(tree.children, "rating", 1),
        !.priceEls = textsOf(tree.children, "price", 1),
        !.textEls = (IF tree.wrapped THEN <<textContent(tree.children, 1)>> ELSE <<>>)
                        \o textsOf(tree.children, "", 1)]

RecordPages ==
    {[EmptyDoc EXCEPT !.body = b] :
        b \in {<<cardOf(t)>> : t \in CardTrees}
                  \cup {<<cardOf(t), cardOf(u)>> : t, u \in CardTrees}}

RecordInit ==
    /\ doc \in RecordPages
    /\ faults = {}
    /\ listeners = <<>>
    /\ HostIdle
    /\ reqs = <<>>
    /\ str1 = <<>>
    /\ str2 = <<>>
    /\ simOut = NoCall
    /\ bedCard = EmptyCard
    /\ bedOut = NoText
    /\ argCard = EmptyCard
    /\ argNext = <<>>
    /\ fieldOut = NoText

\* one run of extractAndSendListingData: the responses it sends
CallExtractAndSend ==
    /\ ~fieldOut.done
    /\ fieldOut' = Returned(extractAndSendListingData(doc, faults, s_AirbnbWishlist).responses)
    /\ UNCHANGED OtherVars

RecordNext == CallExtractAndSend

SpecRecord == RecordInit /\ [][RecordNext]_vars

(***************************************************************************)
(* Background script (src/unnamed/part_002): the save of extracted records *)
(* to a new spreadsheet.  A save advances one callback at a time; `calls`  *)
(* lists its requests to the Sheets API in the order they were started.    *)
(***************************************************************************)
undefined == <<"undefined">>

\* chrome.runtime.lastError.message
lastErrorMessage == <<"lastError">>

s_401 == <<"4", "0", "1">>
s_auth == <<"a", "u", "t", "h">>
s_permission == <<"p", "e", "r", "m", "i", "s", "s", "i", "o", "n">>
s_Unauthorized == <<"U", "n", "a", "u", "t", "h", "o", "r", "i", "z", "e", "d">>
s_NoPermission == <<"N", "o", " ", "p", "e", "r", "m", "i", "s", "s", "i", "o", "n">>
s_BackendError == <<"B", "a", "c", "k", "e", "n", "d", " ", "E", "r", "r", "o", "r">>

s_token == <<"token">>
s_tokenRefreshed == <<"token", "'">>

s_HTTPError == <<"H", "T", "T", "P", " ", "E", "r", "r", "o", "r", " ">>
s_colon == <<":", " ">>
s_403 == <<"4", "0", "3">>
s_500 == <<"5", "0", "0">>
s_Forbidden == <<"F", "o", "r", "b", "i", "d", "d", "e", "n">>
s_InvalidCredentials == <<"I", "n", "v", "a", "l", "i", "d", " ", "C", "r", "e", "d", "e", "n", "t", "i", "a", "l", "s">>
s_CallerPermission == <<"T", "h", "e", " ", "c", "a", "l", "l", "e", "r", " ", "d", "o", "e", "s", " ", "n", "o", "t", " ", "h", "a", "v", "e", " ", "p", "e", "r", "m", "i", "s", "s", "i", "o", "n">>
s_nullError == <<"C", "a", "n", "n", "o", "t", " ", "r", "e", "a", "d", " ", "p", "r", "o", "p", "e", "r", "t", "i", "e", "s", " ", "o", "f", " ", "n", "u", "l", "l", " ", "(", "r", "e", "a", "d", "i", "n", "g", " ", "'", "e", "r", "r", "o", "r", "'", ")">>

\* what Google answers to a call that fails: the status line and the body,
\* which is JSON with a message (kind "json", message <<>> for none), the
\* JSON value null, or text that is not JSON
ApiResponse(outcome) ==
    CASE outcome = "401" ->
             [status |-> s_401, statusText |-> <<>>, body |-> [kind |-> "json", message |-> <<>>]]
      [] outcome = "auth" ->
             [status |-> s_401, statusText |-> s_Unauthorized,
              body |-> [kind |-> "json", message |-> <<>>]]
      [] outcome = "permission" ->
             [status |-> s_403, statusText |-> s_Forbidden,
              body |-> [kind |-> "json", message |-> s_NoPermission]]
      [] outcome = "401text" ->
             [status |-> s_401, statusText |-> s_Unauthorized,
              body |-> [kind |-> "text", message |-> <<>>]]
      [] outcome = "401credentials" ->
             [status |-> s_401, statusText |-> s_Unauthorized,
              body |-> [kind |-> "json", message |-> s_InvalidCredentials]]
      [] outcome = "401null" ->
             [status |-> s_401, statusText |-> s_Unauthorized,
              body |-> [kind |-> "null", message |-> <<>>]]
      [] outcome = "403caller" ->
             [status |-> s_403, statusText |-> <<>>,
              body |-> [kind |-> "json", message |-> s_CallerPermission]]
      [] OTHER ->
             [status |-> s_500, statusText |-> <<>>,
              body |-> [kind |-> "json", message |-> s_BackendError]]

\* handleApiResponse (333-355): the message of the error thrown for a
\* response that is not ok
handleApiResponse(response) ==
    CASE response.body.kind = "text" ->
             s_HTTPError \o response.status \o s_colon \o response.statusText
      [] response.body.kind = "null" -> s_nullError
      [] OTHER ->
             IF response.body.message # <<>> THEN response.body.message
             ELSE IF response.statusText # <<>> THEN response.statusText
             ELSE s_HTTPError \o response.status

ApiErrorMessage(outcome) ==
    handleApiResponse(ApiResponse(outcome))

ApiOutcomes == {"401", "auth", "permission", "server"}
ApiFaults == ApiOutcomes \cup {"401text", "401credentials", "401null", "403caller"}

\* the answer of the environment at a site, for the save caused by a click
Outcome(e, site, click) ==
    IF e.fault[1] = site /\ e.fault[3] = click THEN e.fault[2] ELSE "ok"

\* isValidWishlistData (250-252), for an array
isValidWishlistData(wishlistData) ==
    Len(wishlistData) > 0

\* the item null of an array of records
null == [null |-> TRUE]

\* reading item.propertyName (line 434) throws a TypeError for such an item
rowsThrow(wishlistData) ==
    \E i \in 1..Len(wishlistData) : "null" \in DOMAIN wishlistData[i]

\* item.f || "": a missing and an empty field both give the empty string
fieldOrEmpty(item, f) ==
    IF f \in DOMAIN item THEN item[f] ELSE <<>>

\* the header row of lines 418-426
headers ==
    <<<<"Property Name">>, <<"Rating">>, <<"Date">>, <<"Beds">>, <<"Total Price">>,
      <<"Link to listing">>, <<"Comment">>>>

\* the row pushed for one item, lines 433-441
rowOf(item) ==
    <<fieldOrEmpty(item, "propertyName"), fieldOrEmpty(item, "rating"),
      fieldOrEmpty(item, "date"), fieldOrEmpty(item, "beds"),
      fieldOrEmpty(item, "totalPrice"), fieldOrEmpty(item, "link"),
      fieldOrEmpty(item, "comment")>>

\* variant: the rows without the header row
valuesOfNoHeader(wishlistData) ==
    [i \in 1..Len(wishlistData) |-> rowOf(wishlistData[i])]

\* const values = [headers]; wishlistData.forEach(item => values.push([...]))
valuesOf(wishlistData) ==
    <<headers>> \o [i \in 1..Len(wishlistData) |-> rowOf(wishlistData[i])]

\* x || fallback for a name
nameOr(wishlistName, fallback) ==
    IF wishlistName = undefined \/ wishlistName = <<>> THEN fallback ELSE wishlistName

today == <<"1/11/2026">>

\* the title of the document, lines 366-370
documentTitle(wishlistName) ==
    <<"Airbnb Wishlist: ">> \o nameOr(wishlistName, <<"Untitled">>) \o <<" - ">> \o today

\* the ids Google gives to new documents, and line 448
SpreadsheetId(n) == <<"sheet", ToString(n)>>
spreadsheetUrlOf(spreadsheetId) ==
    <<"https://docs.google.com/spreadsheets/d/">> \o spreadsheetId

ApiCall(api, spreadsheetId) ==
    [api |-> api, spreadsheetId |-> spreadsheetId, title |-> <<>>, sheets |-> <<>>,
     range |-> <<>>, values |-> <<>>, result |-> "pending"]

\* the save of one request: `host` lists the calls of the browser's storage
\* and identity interfaces in the order they were made, `rejected` holds the
\* message with which validateToken rejected
NewSave(click, request) ==
    [kind |-> "save", click |-> click, request |-> request, phase |-> "received",
     token |-> <<>>, spreadsheetId |-> <<>>, sheetTitle |-> <<>>, calls |-> <<>>,
     responses |-> <<>>, host |-> <<>>, rejected |-> <<>>]

\* a call of chrome.storage.local or chrome.identity, and the phase in which
\* its callback is awaited
hostCall(sv, api, phase) ==
    [sv EXCEPT !.host = Append(@, api), !.phase = phase]

respond(sv, response) ==
    [sv EXCEPT !.responses = Append(@, response), !.phase = "done"]

settle(sv, result) ==
    [sv EXCEPT !.calls[Len(sv.calls)].result = result]

start(sv, call, phase) ==
    [sv EXCEPT !.calls = Append(@, call), !.phase = phase]

NeedsAuthResponse ==
    [success |-> FALSE, error |-> <<"Authentication required. Please sign in with Google.">>,
     needsAuth |-> TRUE]

\* handleMissingToken (258-261): chrome.storage.local.clear is called
handleMissingToken(sv, st) ==
    [save |-> hostCall(sv, "storage.clear", "clearing"), storage |-> st]

\* handleAuthError (281-283)
handleAuthError(sv, st) ==
    [save |-> hostCall(sv, "storage.clear", "clearing"), storage |-> st]

\* variant: the response is sent although the storage was not cleared
storageClearedKeeping(sv, st, e) ==
    [save |-> respond(sv, NeedsAuthResponse), storage |-> st]

\* the callback of the clear, lines 261-274 and 283-293: the response is sent
\* whether the clear succeeded or not
storageCleared(sv, st, e) ==
    [save |-> respond(sv, NeedsAuthResponse),
     storage |-> IF e.clearFails THEN st ELSE EmptyStorage]

\* variant: no error of a call to Google asks for a new sign-in
catchSaveErrorGeneric(sv, st, message) ==
    [save |-> respond(sv, [success |-> FALSE,
                           error |-> IF message # <<>> THEN message
                                     ELSE <<"Error saving to Google Sheets">>]),
     storage |-> st]

\* the catch of lines 216-235
catchSaveError(sv, st, message) ==
    IF includes(message, s_401) \/ includes(message, s_auth)
           \/ includes(message, s_permission)
    THEN handleAuthError(sv, st)
    ELSE [save |-> respond(sv, [success |-> FALSE,
                                error |-> IF message # <<>> THEN message
                                          ELSE <<"Error saving to Google Sheets">>]),
          storage |-> st]

\* handleSaveToGoogleSheets (165-179), up to the read of the storage
handleSaveToGoogleSheets(click, request) ==
    IF "wishlistData" \notin DOMAIN request \/ ~isValidWishlistData(request.wishlistData)
    THEN respond(NewSave(click, request),
                 [success |-> FALSE, error |-> <<"No valid wishlist data to save">>])
    ELSE hostCall(NewSave(click, request), "storage.get", "storage")

\* createSpreadsheet (363-399): the request for a new document with one sheet
createSpreadsheet(wishlistName) ==
    [ApiCall("create", <<>>) EXCEPT
        !.title = documentTitle(wishlistName),
        !.sheets = <<[title |-> nameOr(wishlistName, <<"Wishlist">>), index |-> 0]>>]

\* variant: a stored spreadsheet is written again instead of creating one
saveToGoogleSheetsReusing(sv, st) ==
    IF st.spreadsheetId # <<>>
    THEN start([sv EXCEPT !.spreadsheetId = st.spreadsheetId],
               ApiCall("get", st.spreadsheetId), "metadata")
    ELSE start(sv, createSpreadsheet(sv.request.wishlistName), "create")

\* saveToGoogleSheets (409-446): always a new document; existingSpreadsheetId
\* is not read
saveToGoogleSheets(sv, st) ==
    start(sv, createSpreadsheet(sv.request.wishlistName), "create")

\* validateToken (16-18): the token is read from the storage
validateToken(sv) ==
    hostCall(sv, "storage.get", "validate")

\* variant: a storage error is logged and not answered
storageReadSilent(sv, st, e) ==
    IF Outcome(e, "storage", sv.click) = "lastError"
    THEN [save |-> [sv EXCEPT !.phase = "done"], storage |-> st]
    ELSE IF st.token = <<>> THEN handleMissingToken(sv, st)
    ELSE [save |-> validateToken(sv), storage |-> st]

\* the callback of chrome.storage.local.get, lines 179-197
storageRead(sv, st, e) ==
    IF Outcome(e, "storage", sv.click) = "lastError"
    THEN [save |-> respond(sv, [success |-> FALSE,
                                error |-> <<"Storage error: ">> \o lastErrorMessage]),
          storage |-> st]
    ELSE IF st.token = <<>> THEN handleMissingToken(sv, st)
    ELSE [save |-> validateToken(sv), storage |-> st]

\* validateToken resolves: for a save lines 198-207, where a throw while
\* the rows are built (432-442) reaches the catch of lines 237-241; at
\* start-up and installation lines 95 and 104
tokenResolved(sv, st, token) ==
    IF sv.kind # "save" THEN [save |-> [sv EXCEPT !.phase = "done", !.token = token],
                              storage |-> st]
    ELSE IF rowsThrow(sv.request.wishlistData) THEN handleAuthError(sv, st)
    ELSE [save |-> saveToGoogleSheets([sv EXCEPT !.token = token], st), storage |-> st]

\* validateToken rejects: lines 237-241, or lines 96-98 and 105-107
tokenRejected(sv, st, message) ==
    IF sv.kind # "save" THEN [save |-> [sv EXCEPT !.phase = "done", !.rejected = message],
                              storage |-> st]
    ELSE handleAuthError([sv EXCEPT !.rejected = message], st)

\* the callback of the read in validateToken, lines 18-33
tokenRead(sv, st, e) ==
    IF Outcome(e, "validate", sv.click) = "storageError"
    THEN tokenRejected(sv, st, <<"Storage error: ">> \o lastErrorMessage)
    ELSE IF st.token = <<>>
    THEN tokenRejected(sv, st, <<"No authentication token found">>)
    ELSE [save |-> hostCall(sv, "getAuthToken", "identity"), storage |-> st]

\* attemptTokenRefresh (58-62)
attemptTokenRefresh(sv) ==
    hostCall(sv, "removeCachedAuthToken", "remove")

\* the callback of getAuthToken in validateToken, lines 33-47
tokenChecked(sv, st, e) ==
    IF Outcome(e, "validate", sv.click) \in {"refreshed", "expired", "unsaved"}
    THEN [save |-> attemptTokenRefresh(sv), storage |-> st]
    ELSE tokenResolved(sv, st, s_token)

\* the callback of removeCachedAuthToken, lines 62-64
cachedTokenRemoved(sv) ==
    hostCall(sv, "getAuthToken", "refresh")

\* variant: a refresh that fails asks the user
tokenRefreshedAsking(sv, st, e) ==
    IF Outcome(e, "validate", sv.click) = "expired"
    THEN [save |-> hostCall(sv, "getAuthToken interactive", "store"), storage |-> st]
    ELSE [save |-> hostCall(sv, "storage.set", "store"), storage |-> st]

\* the callback of the second getAuthToken, lines 64-76
tokenRefreshed(sv, st, e) ==
    IF Outcome(e, "validate", sv.click) = "expired"
    THEN tokenRejected(sv, st, <<"Authentication token expired">>)
    ELSE [save |-> hostCall(sv, "storage.set", "store"), storage |-> st]

\* the callback of the write of the new token, lines 76-85: the promise
\* resolves whether the write succeeded or not
refreshedTokenStored(sv, st, e) ==
    tokenResolved(sv,
                  IF Outcome(e, "validate", sv.click) = "unsaved" THEN st
                  ELSE [st EXCEPT !.token = s_tokenRefreshed],
                  s_tokenRefreshed)

\* the listeners of lines 92-108
NewValidation(kind, click) ==
    validateToken([NewSave(click, [action |-> kind]) EXCEPT !.kind = kind])

\* handleAuthorization (131-133) with authorize (300-307)
handleAuthorization(click) ==
    hostCall([NewSave(click, [action |-> "authorize"]) EXCEPT !.kind = "authorize"],
             "getAuthToken interactive", "authorize")

\* the callback of getAuthToken in authorize (308-323), with lines 134-139
\* and 154-157
authorized(sv, st, e) ==
    CASE Outcome(e, "authorize", sv.click) = "lastError" ->
             [save |-> respond(sv, [success |-> FALSE, error |-> lastErrorMessage]),
              storage |-> st]
      [] Outcome(e, "authorize", sv.click) = "lastErrorNoMessage" ->
             [save |-> respond(sv, [success |-> FALSE, error |-> <<"Authentication failed">>]),
              storage |-> st]
      [] Outcome(e, "authorize", sv.click) = "noToken" ->
             [save |-> respond(sv, [success |-> FALSE,
                                    error |-> <<"No authentication token returned">>]),
              storage |-> st]
      [] OTHER ->
             [save |-> hostCall([sv EXCEPT !.token = s_token], "storage.set", "keep"),
              storage |-> st]

\* variant: success is answered whatever the write of the token did
authorizationStoredAnyway(sv, st, e) ==
    [save |-> respond(sv, [success |-> TRUE]),
     storage |-> IF Outcome(e, "authorize", sv.click) = "unsaved" THEN st
                 ELSE [st EXCEPT !.token = sv.token]]

\* the callback of the write of the token, lines 139-152
authorizationStored(sv, st, e) ==
    IF Outcome(e, "authorize", sv.click) = "unsaved"
    THEN [save |-> respond(sv, [success |-> FALSE,
                                error |-> <<"Error saving authentication: ">>
                                              \o lastErrorMessage]),
          storage |-> st]
    ELSE [save |-> respond(sv, [success |-> TRUE]),
          storage |-> [st EXCEPT !.token = sv.token]]

\* the number of documents created so far
Created(svs) ==
    Cardinality({k \in 1..Len(svs) :
                    /\ svs[k].calls # <<>>
                    /\ svs[k].calls[1].api = "create"
                    /\ svs[k].calls[1].result = "ok"})

\* the answer to createSpreadsheet, lines 446-452: updateSpreadsheet starts
\* with the read of the document's metadata (479-489)
spreadsheetCreated(sv, st, e, svs) ==
    IF Outcome(e, "create", sv.click) = "ok"
    THEN [save |-> start([settle(sv, "ok") EXCEPT
                              !.calls[Len(sv.calls)].spreadsheetId = SpreadsheetId(Created(svs) + 1),
                              !.spreadsheetId = SpreadsheetId(Created(svs) + 1)],
                         ApiCall("get", SpreadsheetId(Created(svs) + 1)), "metadata"),
          storage |-> st]
    ELSE catchSaveError(settle(sv, "failed"), st,
                        ApiErrorMessage(Outcome(e, "create", sv.click)))

\* the sheets of a document, as its metadata lists them
SheetsOf(svs, spreadsheetId) ==
    LET makers == {k \in 1..Len(svs) :
                      /\ svs[k].calls # <<>>
                      /\ svs[k].calls[1].api = "create"
                      /\ svs[k].calls[1].spreadsheetId = spreadsheetId}
    IN  IF makers = {} THEN <<>> ELSE svs[CHOOSE k \in makers : TRUE].calls[1].sheets

\* spreadsheetData.sheets.find(...), lines 495-499: <<>> when none is found
findSheet(sheets, sheetName) ==
    LET hits == SelectSeq(sheets, LAMBDA s :
                    s.title = sheetName \/ (sheetName = undefined /\ s.index = 0))
    IN  IF hits = <<>> THEN <<>> ELSE <<hits[1]>>

\* clearSpreadsheetData (526-544): the request
clearSpreadsheetData(spreadsheetId, sheetTitle) ==
    [ApiCall("clear", spreadsheetId) EXCEPT !.range = sheetTitle \o <<"!A1:Z1000">>]

\* updateSpreadsheetData (554-577): the request
updateSpreadsheetData(spreadsheetId, sheetTitle, values) ==
    [ApiCall("write", spreadsheetId) EXCEPT
        !.range = sheetTitle \o <<"!A1:G", ToString(Len(values))>>,
        !.values = values]

\* variant: the range is cleared whatever the read of the metadata answered
metadataReadClearsAnyway(sv, st, e, svs) ==
    [save |-> start([settle(sv, IF Outcome(e, "metadata", sv.click) = "ok"
                                THEN "ok" ELSE "failed")
                         EXCEPT !.sheetTitle = nameOr(sv.request.wishlistName, <<"Wishlist">>)],
                    clearSpreadsheetData(sv.spreadsheetId,
                                         nameOr(sv.request.wishlistName, <<"Wishlist">>)),
                    "clear"),
     storage |-> st]

\* updateSpreadsheet (469-517): the answer to the read of the metadata
metadataRead(sv, st, e, svs) ==
    IF Outcome(e, "metadata", sv.click) # "ok"
    THEN catchSaveError(settle(sv, "failed"), st,
                        ApiErrorMessage(Outcome(e, "metadata", sv.click)))
    ELSE IF findSheet(SheetsOf(svs, sv.spreadsheetId), sv.request.wishlistName) = <<>>
    THEN catchSaveError(settle(sv, "ok"), st,
                        <<"Sheet ">> \o nameOr(sv.request.wishlistName, <<"Sheet1">>)
                            \o <<" not found in the spreadsheet">>)
    ELSE [save |-> start([settle(sv, "ok") EXCEPT
                              !.sheetTitle = findSheet(SheetsOf(svs, sv.spreadsheetId),
                                                       sv.request.wishlistName)[1].title],
                         clearSpreadsheetData(sv.spreadsheetId,
                             findSheet(SheetsOf(svs, sv.spreadsheetId),
                                       sv.request.wishlistName)[1].title),
                         "clear"),
          storage |-> st]

\* the answer to the clear, lines 512-515
rangeCleared(sv, st, e) ==
    IF Outcome(e, "clear", sv.click) # "ok"
    THEN catchSaveError(settle(sv, "failed"), st,
                        ApiErrorMessage(Outcome(e, "clear", sv.click)))
    ELSE [save |-> start(settle(sv, "ok"),
                         updateSpreadsheetData(sv.spreadsheetId, sv.sheetTitle,
                                               valuesOf(sv.request.wishlistData)),
                         "write"),
          storage |-> st]

\* the answer to the write, lines 452-457 and 206-214
rowsWritten(sv, st, e) ==
    IF Outcome(e, "write", sv.click) # "ok"
    THEN catchSaveError(settle(sv, "failed"), st,
                        ApiErrorMessage(Outcome(e, "write", sv.click)))
    ELSE [save |-> respond(settle(sv, "ok"),
                           [success |-> TRUE, spreadsheetId |-> sv.spreadsheetId,
                            spreadsheetUrl |-> spreadsheetUrlOf(sv.spreadsheetId)]),
          storage |-> st]

\* the next callback of a save
saveStep(sv, st, e, svs) ==
    CASE sv.phase = "storage" -> storageRead(sv, st, e)
      [] sv.phase = "clearing" -> storageCleared(sv, st, e)
      [] sv.phase = "validate" -> tokenRead(sv, st, e)
      [] sv.phase = "identity" -> tokenChecked(sv, st, e)
      [] sv.phase = "remove" -> [save |-> cachedTokenRemoved(sv), storage |-> st]
      [] sv.phase = "refresh" -> tokenRefreshed(sv, st, e)
      [] sv.phase = "store" -> refreshedTokenStored(sv, st, e)
      [] sv.phase = "authorize" -> authorized(sv, st, e)
      [] sv.phase = "keep" -> authorizationStored(sv, st, e)
      [] sv.phase = "create" -> spreadsheetCreated(sv, st, e, svs)
      [] sv.phase = "metadata" -> metadataRead(sv, st, e, svs)
      [] sv.phase = "clear" -> rangeCleared(sv, st, e)
      [] sv.phase = "write" -> rowsWritten(sv, st, e)

(***************************************************************************)
(* Popup (src/unnamed/part_001).  An extraction started by a click is a    *)
(* flow: it advances one callback at a time and records what it did.       *)
(***************************************************************************)
s_wishlists == <<"/", "w", "i", "s", "h", "l", "i", "s", "t", "s", "/">>

\* showStatus (436-449)
showStatus(p, message, type) ==
    [p EXCEPT !.status = [text |-> message, type |-> type]]

\* resetExtractButton (425-429)
resetExtractButton(p) ==
    [p EXCEPT !.extractDisabled = FALSE, !.extractLabel = <<"Extract Wishlist Data">>]

\* updateUIForAuthenticatedUser (51-62)
updateUIForAuthenticatedUser(p, data) ==
    IF data.spreadsheetUrl # <<>>
    THEN [p EXCEPT !.loginStatus = FALSE, !.extractionControls = TRUE,
                   !.spreadsheetUrl = TRUE, !.dataUrl = data.spreadsheetUrl]
    ELSE [p EXCEPT !.loginStatus = FALSE, !.extractionControls = TRUE]

\* updateUIForUnauthenticatedUser (67-71)
updateUIForUnauthenticatedUser(p) ==
    [p EXCEPT !.loginStatus = TRUE, !.extractionControls = FALSE, !.spreadsheetUrl = FALSE]

\* the callback of initializePopup (23-45)
initializePopup(p, data, e) ==
    IF Outcome(e, "init", 0) = "lastError"
    THEN showStatus(p, <<"Failed to access storage. Please try again.">>, "error")
    ELSE IF data.token # <<>> THEN updateUIForAuthenticatedUser(p, data)
    ELSE updateUIForUnauthenticatedUser(p)

\* handleAuthorizeClick (113-122): the button is disabled and the authorize
\* message sent
handleAuthorizeClick(p) ==
    [p EXCEPT !.authorizeDisabled = TRUE]

\* variant: a success hides the sign-in control only
authorizeAnsweredHidingOnly(p, lastError, response) ==
    IF ~lastError /\ response # <<>> /\ response[1].success
    THEN showStatus([p EXCEPT !.authorizeDisabled = FALSE, !.loginStatus = FALSE],
                    <<"Successfully signed in with Google">>, "success")
    ELSE [p EXCEPT !.authorizeDisabled = FALSE]

\* the callback of the authorize message, lines 122-150; response is <<>>
\* for no response
authorizeAnswered(p, lastError, response) ==
    IF lastError
    THEN showStatus([p EXCEPT !.authorizeDisabled = FALSE],
                    <<"Error connecting to Google: ">> \o lastErrorMessage, "error")
    ELSE IF response # <<>> /\ response[1].success
    THEN showStatus([p EXCEPT !.authorizeDisabled = FALSE, !.loginStatus = FALSE,
                              !.extractionControls = TRUE],
                    <<"Successfully signed in with Google">>, "success")
    ELSE showStatus([p EXCEPT !.authorizeDisabled = FALSE],
                    (IF response # <<>> /\ "error" \in DOMAIN response[1]
                            /\ response[1].error # <<>>
                     THEN response[1].error ELSE <<"Failed to sign in with Google">>)
                        \o <<". Please try again.">>, "error")

NewFlow ==
    [phase |-> "query", ping |-> "", inject |-> "", delayed |-> FALSE, sent |-> 0,
     response |-> <<>>, forwarded |-> <<>>, saved |-> <<>>]

\* variant: the button stays enabled
handleExtractClickKeepEnabled(p) ==
    p

\* handleExtractClick (157-165), up to the query for the tab
handleExtractClick(p) ==
    [p EXCEPT !.extractDisabled = TRUE, !.extractLabel = <<"Extracting...">>]

\* variant: the error is shown and the button left as it is
handleExtractErrorStatusOnly(p, errorMessage) ==
    showStatus(p, errorMessage, "error")

\* handleExtractError (194-198)
handleExtractError(p, errorMessage) ==
    [showStatus(p, errorMessage, "error") EXCEPT
        !.extractDisabled = FALSE, !.extractLabel = <<"Extract Wishlist Data">>]

\* checkAndInjectContentScript (205-229), up to the ping: the ping is sent,
\* or sendMessage throws
checkAndInjectContentScript(p, fl, outcome) ==
    IF outcome = "throw"
    THEN [popup |-> resetExtractButton(
                        showStatus(p, <<"Error initializing extraction: ", "error">>, "error")),
          flow |-> [fl EXCEPT !.phase = "done", !.ping = "throw"]]
    ELSE [popup |-> p, flow |-> [fl EXCEPT !.phase = "ping"]]

\* the callback of chrome.tabs.query, lines 166-188; tabs is <<>> for
\* undefined, and then reading tabs[0] throws before anything else is done
tabsQueried(p, fl, tabs, lastError, pingOutcome) ==
    IF tabs = <<>> THEN [popup |-> p, flow |-> [fl EXCEPT !.phase = "crashed"]]
    ELSE IF lastError
    THEN [popup |-> handleExtractError(p,
                        <<"Failed to access current tab. Please try again.">>),
          flow |-> [fl EXCEPT !.phase = "done"]]
    ELSE IF ~includes(tabs[1].url, s_wishlists)
    THEN [popup |-> handleExtractError(p,
                        <<"Please navigate to an Airbnb wishlist page first">>),
          flow |-> [fl EXCEPT !.phase = "done"]]
    ELSE checkAndInjectContentScript(
             showStatus(p, <<"Extracting data from wishlist...">>, "success"),
             fl, pingOutcome)

\* extractWishlistData (270-273): the extraction request is sent
extractWishlistData(fl) ==
    [fl EXCEPT !.phase = "extract", !.sent = @ + 1]

\* the callback of the ping, lines 210-220
pingAnswered(fl, hasError) ==
    IF hasError THEN [fl EXCEPT !.phase = "inject", !.ping = "error"]
    ELSE extractWishlistData([fl EXCEPT !.ping = "ok"])

\* variant: the extraction is started whatever the injection answered
injectedAlwaysProceeds(p, fl, outcome) ==
    [popup |-> p, flow |-> [fl EXCEPT !.phase = "delay",
                                      !.inject = IF outcome = "lastError" THEN "error" ELSE "ok"]]

\* the callback of chrome.scripting.executeScript, lines 243-262
injected(p, fl, outcome) ==
    IF outcome = "lastError"
    THEN [popup |-> resetExtractButton(showStatus(p,
                        <<"Failed to initialize data extraction. Please refresh the page and try again.">>,
                        "error")),
          flow |-> [fl EXCEPT !.phase = "done", !.inject = "error"]]
    ELSE [popup |-> p, flow |-> [fl EXCEPT !.phase = "delay", !.inject = "ok"]]

\* the timer of lines 260-262
delayElapsed(fl) ==
    extractWishlistData([fl EXCEPT !.delayed = TRUE])

\* what the tab answers to the extraction request: <<>> for no response
ExtractionResponse(outcome, reply) ==
    CASE outcome \in {"lastError", "noResponse"} -> <<>>
      [] outcome = "failure" ->
             <<[success |-> FALSE, error |-> <<handleNoListingsFound.error>>]>>
      [] outcome = "failureNoError" -> <<[success |-> FALSE]>>
      [] outcome = "emptyData" -> <<[reply EXCEPT !.data = <<>>]>>
      [] outcome = "noData" -> <<[success |-> TRUE]>>
      [] OTHER -> <<reply>>

\* processExtractedData (332-344): the status and the save request
processExtractedData(p, fl, wishlistData, wishlistName) ==
    [popup |-> showStatus(p, <<"Saving ", ToString(Len(wishlistData)),
                               " listings to Google Sheets...">>, "success"),
     flow |-> [fl EXCEPT !.phase = "save",
                         !.forwarded = <<[wishlistData |-> wishlistData,
                                          wishlistName |-> wishlistName]>>]]

\* variant: whatever a successful response holds is forwarded
extractionAnsweredForwardsEmpty(p, fl, lastError, response) ==
    IF ~lastError /\ response # <<>> /\ response[1].success
    THEN processExtractedData(resetExtractButton(p), [fl EXCEPT !.response = response],
             IF "data" \in DOMAIN response[1] THEN response[1].data ELSE <<>>,
             IF "wishlistName" \in DOMAIN response[1]
             THEN response[1].wishlistName ELSE undefined)
    ELSE [popup |-> resetExtractButton(p),
          flow |-> [fl EXCEPT !.phase = "done", !.response = response]]

\* the callback of the extraction request, lines 274-323
extractionAnswered(p, fl, lastError, response) ==
    IF lastError
    THEN [popup |-> showStatus(resetExtractButton(p),
                        <<"Error communicating with the page: ">> \o lastErrorMessage, "error"),
          flow |-> [fl EXCEPT !.phase = "done", !.response = response]]
    ELSE IF response = <<>>
    THEN [popup |-> showStatus(resetExtractButton(p),
                        <<"No response from the page. Please refresh and try again.">>, "error"),
          flow |-> [fl EXCEPT !.phase = "done", !.response = response]]
    ELSE IF ~response[1].success
    THEN [popup |-> showStatus(resetExtractButton(p),
                        <<"Failed to extract data: ">>
                            \o (IF "error" \in DOMAIN response[1] /\ response[1].error # <<>>
                                THEN response[1].error ELSE <<"Unknown error">>), "error"),
          flow |-> [fl EXCEPT !.phase = "done", !.response = response]]
    ELSE IF "data" \notin DOMAIN response[1] \/ Len(response[1].data) = 0
    THEN [popup |-> showStatus(resetExtractButton(p),
                        <<"No wishlist items found to extract.">>, "error"),
          flow |-> [fl EXCEPT !.phase = "done", !.response = response]]
    ELSE processExtractedData(resetExtractButton(p), [fl EXCEPT !.response = response],
             response[1].data,
             IF "wishlistName" \in DOMAIN response[1]
             THEN response[1].wishlistName ELSE undefined)

\* handleSuccessfulSave (373-398): the popup and the storage afterwards
handleSuccessfulSave(p, st, sheetsResponse) ==
    [popup |-> [showStatus(p, <<"Data successfully exported to Google Sheets!">>, "success")
                    EXCEPT !.spreadsheetUrl = TRUE,
                           !.dataUrl = sheetsResponse.spreadsheetUrl,
                           !.opened = IF sheetsResponse.spreadsheetUrl # <<>>
                                      THEN Append(@, sheetsResponse.spreadsheetUrl) ELSE @],
     storage |-> [st EXCEPT !.spreadsheetId = sheetsResponse.spreadsheetId,
                            !.spreadsheetUrl = sheetsResponse.spreadsheetUrl]]

\* variant: every failed save asks for a new sign-in
handleFailedSaveAlwaysSignIn(p, sheetsResponse) ==
    showStatus([p EXCEPT !.extractionControls = FALSE, !.loginStatus = TRUE],
               <<"Please sign in with Google to continue">>, "error")

\* handleFailedSave (404-420); sheetsResponse is <<>> for no response
handleFailedSave(p, sheetsResponse) ==
    IF sheetsResponse # <<>> /\ "needsAuth" \in DOMAIN sheetsResponse[1]
           /\ sheetsResponse[1].needsAuth
    THEN showStatus([p EXCEPT !.extractionControls = FALSE, !.loginStatus = TRUE],
                    <<"Please sign in with Google to continue">>, "error")
    ELSE showStatus(p, <<"Failed to export data to Google Sheets: ">>
                           \o (IF sheetsResponse # <<>> /\ "error" \in DOMAIN sheetsResponse[1]
                                      /\ sheetsResponse[1].error # <<>>
                               THEN sheetsResponse[1].error ELSE <<"Unknown error">>),
                    "error")

\* the callback of the save request, lines 345-365
saveAnswered(p, st, lastError, sheetsResponse) ==
    IF lastError
    THEN [popup |-> showStatus(p, <<"Error saving to Google Sheets: ">> \o lastErrorMessage,
                               "error"),
          storage |-> st]
    ELSE IF sheetsResponse # <<>> /\ sheetsResponse[1].success
    THEN handleSuccessfulSave(p, st, sheetsResponse[1])
    ELSE [popup |-> handleFailedSave(p, sheetsResponse), storage |-> st]

(***************************************************************************)
(* Specification SpecHost: the popup and the background script, from the   *)
(* opening of the popup, in an enumerated environment: what the storage    *)
(* holds, whether the content script is in the tab, what the tab answers   *)
(* to an extraction request, and at most one fault.                        *)
(***************************************************************************)
examplePage == [EmptyDoc EXCEPT !.body = <<cardFull, cardBare>>]
recFull == extractListingData(examplePage, {}, 1, 0).value
recBare == extractListingData(examplePage, {}, 2, 1).value
recPartial == [propertyName |-> s_Hut, link |-> s_canonicalExample]

usualReply ==
    [success |-> TRUE, data |-> <<recFull, recBare>>, wishlistName |-> s_AirbnbWishlist]

Replies ==
    {usualReply,
     [success |-> TRUE, data |-> <<recFull>>, wishlistName |-> trim(s_Trips)],
     [success |-> TRUE, data |-> <<recPartial, recFull>>, wishlistName |-> <<>>],
     [success |-> TRUE, data |-> <<recBare, recPartial>>]}

FlowFaultKinds ==
    ({"query"} \X {"lastError", "noTabs", "otherPage"})
        \cup ({"ping"} \X {"throw"})
        \cup ({"inject"} \X {"lastError"})
        \cup ({"extract"} \X {"lastError", "noResponse", "failure", "failureNoError",
                              "emptyData", "noData"})
        \cup ({"save"} \X {"lastError"})
        \cup ({"storage"} \X {"lastError"})
        \cup ({"validate"} \X {"refreshed", "expired"})
        \cup ({"create", "metadata", "clear", "write"} \X ApiOutcomes)

HostFaults ==
    {NoFault, <<"init", "lastError", 0>>}
        \cup {<<k[1], k[2], c>> : k \in FlowFaultKinds, c \in 1..MaxClicks}

Storages ==
    {EmptyStorage,
     [EmptyStorage EXCEPT !.token = s_token],
     [token |-> s_token, spreadsheetId |-> SpreadsheetId(0),
      spreadsheetUrl |-> spreadsheetUrlOf(SpreadsheetId(0))]}

\* every reply without a fault, every fault with the usual reply
HostEnvs ==
    [resident : BOOLEAN, fault : {NoFault}, reply : Replies, clearFails : {FALSE}]
        \cup [resident : BOOLEAN, fault : HostFaults, reply : {usualReply},
               clearFails : {FALSE}]

HostInit ==
    /\ popup = PopupAtLoad
    /\ flows = <<>>
    /\ saves = <<>>
    /\ env \in HostEnvs
    /\ storage \in IF env.fault[1] \in {"", "init", "validate", "write"}
                    THEN Storages
                    ELSE {[EmptyStorage EXCEPT !.token = s_token]}
    /\ doc = EmptyDoc
    /\ faults = {}
    /\ listeners = <<>>
    /\ reqs = <<>>
    /\ str1 = <<>>
    /\ str2 = <<>>
    /\ simOut = NoCall
    /\ bedCard = EmptyCard
    /\ bedOut = NoText
    /\ argCard = EmptyCard
    /\ argNext = <<>>
    /\ fieldOut = NoText

scriptVars == <<simVars, bedVars, pageVars, fieldVars>>

\* the popup's DOMContentLoaded: the callback of initializePopup runs
PopupOpened ==
    /\ ~popup.initialized
    /\ popup' = [initializePopup(popup, storage, env) EXCEPT !.initialized = TRUE]
    /\ UNCHANGED <<flows, storage, saves, env, scriptVars>>

\* a click on "Extract Wishlist Data"
ExtractClick ==
    /\ popup.extractionControls
    /\ ~popup.extractDisabled
    /\ Len(flows) < MaxClicks
    /\ popup' = handleExtractClick(popup)
    /\ flows' = Append(flows, NewFlow)
    /\ UNCHANGED <<storage, saves, env, scriptVars>>

s_wishlistUrl == s_base \o s_wishlists \o s_12345678

\* the tabs handed to the callback of chrome.tabs.query
ActiveTabs(outcome) ==
    IF outcome \in {"noTabs", "lastErrorNoTabs"} THEN <<>>
    ELSE <<[url |-> IF outcome = "otherPage" THEN s_canonicalExample ELSE s_wishlistUrl]>>

TabsQueried(k) ==
    /\ flows[k].phase = "query"
    /\ popup' = tabsQueried(popup, flows[k], ActiveTabs(Outcome(env, "query", k)),
                            Outcome(env, "query", k) \in {"lastError", "lastErrorNoTabs"},
                            Outcome(env, "ping", k)).popup
    /\ flows' = [flows EXCEPT ![k] =
                     tabsQueried(popup, flows[k], ActiveTabs(Outcome(env, "query", k)),
                                 Outcome(env, "query", k) \in {"lastError", "lastErrorNoTabs"},
                                 Outcome(env, "ping", k)).flow]
    /\ UNCHANGED <<storage, saves, env, scriptVars>>

\* the ping is answered, or fails because nothing listens in the tab
PingAnswered(k) ==
    /\ flows[k].phase = "ping"
    /\ flows' = [flows EXCEPT ![k] = pingAnswered(flows[k], ~env.resident)]
    /\ UNCHANGED <<popup, storage, saves, env, scriptVars>>

Injected(k) ==
    /\ flows[k].phase = "inject"
    /\ popup' = injected(popup, flows[k], Outcome(env, "inject", k)).popup
    /\ flows' = [flows EXCEPT ![k] = injected(popup, flows[k], Outcome(env, "inject", k)).flow]
    /\ env' = IF Outcome(env, "inject", k) = "ok" THEN [env EXCEPT !.resident = TRUE] ELSE env
    /\ UNCHANGED <<storage, saves, scriptVars>>

DelayElapsed(k) ==
    /\ flows[k].phase = "delay"
    /\ flows' = [flows EXCEPT ![k] = delayElapsed(flows[k])]
    /\ UNCHANGED <<popup, storage, saves, env, scriptVars>>

\* the tab's answer to flow k, as the popup receives it
TabAnswer(k) ==
    [lastError |-> ~env.resident \/ Outcome(env, "extract", k) = "lastError",
     response |-> IF env.resident THEN ExtractionResponse(Outcome(env, "extract", k), env.reply)
                  ELSE <<>>]

\* the extraction request is answered; a save request that results reaches
\* the background script unless the message fails
ExtractionAnswered(k) ==
    /\ flows[k].phase = "extract"
    /\ popup' = extractionAnswered(popup, flows[k], TabAnswer(k).lastError,
                                   TabAnswer(k).response).popup
    /\ flows' = [flows EXCEPT ![k] =
                     extractionAnswered(popup, flows[k], TabAnswer(k).lastError,
                                        TabAnswer(k).response).flow]
    /\ saves' = IF flows'[k].phase = "save" /\ Outcome(env, "save", k) = "ok"
                THEN Append(saves, handleSaveToGoogleSheets(k, flows'[k].forwarded[1]))
                ELSE saves
    /\ UNCHANGED <<storage, env, scriptVars>>

\* the next callback of a save runs in the background script
BackgroundStep(j) ==
    /\ saves[j].phase # "done"
    /\ saves' = [saves EXCEPT ![j] = saveStep(saves[j], storage, env, saves).save]
    /\ storage' = saveStep(saves[j], storage, env, saves).storage
    /\ UNCHANGED <<popup, flows, env, scriptVars>>

SaveOf(k) == {j \in 1..Len(saves) : saves[j].click = k /\ saves[j].phase = "done"}

\* the answer to the save request of flow k: <<>> for none
SheetsAnswer(k) ==
    IF SaveOf(k) = {} THEN <<>>
    ELSE <<saves[CHOOSE j \in SaveOf(k) : TRUE].responses[1]>>

\* the popup receives the answer to its save request
SaveAnswered(k) ==
    /\ flows[k].phase = "save"
    /\ Outcome(env, "save", k) = "lastError" \/ SaveOf(k) # {}
    /\ popup' = saveAnswered(popup, storage, Outcome(env, "save", k) = "lastError",
                             SheetsAnswer(k)).popup
    /\ storage' = saveAnswered(popup, storage, Outcome(env, "save", k) = "lastError",
                               SheetsAnswer(k)).storage
    /\ flows' = [flows EXCEPT ![k].phase = "done", ![k].saved = SheetsAnswer(k)]
    /\ UNCHANGED <<saves, env, scriptVars>>

HostNext ==
    \/ PopupOpened
    \/ ExtractClick
    \/ \E k \in 1..Len(flows) :
          \/ TabsQueried(k)
          \/ PingAnswered(k)
          \/ Injected(k)
          \/ DelayElapsed(k)
          \/ ExtractionAnswered(k)
          \/ SaveAnswered(k)
    \/ \E j \in 1..Len(saves) : BackgroundStep(j)

SpecHost == HostInit /\ [][HostNext]_vars

(***************************************************************************)
(* Specification SpecClicks: the popup in a smaller set of environments,   *)
(* where the browser delivers every callback an extraction waits for, up   *)
(* to the answer of the tab: weak fairness of each flow's next callback.   *)
(***************************************************************************)
ClickFaultKinds ==
    ({"query"} \X {"lastError", "lastErrorNoTabs", "noTabs", "otherPage"})
        \cup ({"ping"} \X {"throw"})
        \cup ({"inject"} \X {"lastError"})
        \cup ({"extract"} \X {"lastError", "noResponse", "failure"})

ClickFaults ==
    {NoFault} \cup {<<k[1], k[2], c>> : k \in ClickFaultKinds, c \in 1..MaxClicks}

ClicksInit ==
    /\ popup = PopupAtLoad
    /\ flows = <<>>
    /\ saves = <<>>
    /\ env \in [resident : BOOLEAN, fault : ClickFaults, reply : {usualReply},
                 clearFails : {FALSE}]
    /\ storage = [EmptyStorage EXCEPT !.token = s_token]
    /\ doc = EmptyDoc
    /\ faults = {}
    /\ listeners = <<>>
    /\ reqs = <<>>
    /\ str1 = <<>>
    /\ str2 = <<>>
    /\ simOut = NoCall
    /\ bedCard = EmptyCard
    /\ bedOut = NoText
    /\ argCard = EmptyCard
    /\ argNext = <<>>
    /\ fieldOut = NoText

\* the next callback of flow k, up to the answer of the tab, is delivered
FlowCallbackDelivered(k) ==
    /\ k <= Len(flows)
    /\ \/ TabsQueried(k)
       \/ PingAnswered(k)
       \/ Injected(k)
       \/ DelayElapsed(k)
       \/ ExtractionAnswered(k)

SpecClicks ==
    /\ ClicksInit
    /\ [][HostNext]_vars
    /\ \A k \in 1..MaxClicks : WF_vars(FlowCallbackDelivered(k))

(***************************************************************************)
(* Specification SpecBackground: the background script alone.  It handles  *)
(* authorize and save messages from any part of the extension, and the     *)
(* start-up and installation events; each callback it waits for is one     *)
(* step.  The environment holds at most one fault, which lasts for the     *)
(* whole behaviour (click 0), and whether clearing the storage fails.      *)
(***************************************************************************)
SaveRequests ==
    {[action |-> "saveToGoogleSheets", wishlistData |-> <<recFull, recBare>>,
      wishlistName |-> s_AirbnbWishlist],
     [action |-> "saveToGoogleSheets", wishlistData |-> <<recFull, null>>,
      wishlistName |-> s_AirbnbWishlist],
     [action |-> "saveToGoogleSheets", wishlistData |-> <<>>,
      wishlistName |-> s_AirbnbWishlist],
     [action |-> "saveToGoogleSheets", wishlistName |-> s_AirbnbWishlist]}

BackgroundFaultKinds ==
    ({"storage"} \X {"lastError"})
        \cup ({"validate"} \X {"storageError", "refreshed", "expired", "unsaved"})
        \cup ({"authorize"} \X {"lastError", "lastErrorNoMessage", "noToken", "unsaved"})
        \cup ({"create"} \X ApiFaults)
        \cup ({"metadata", "clear", "write"} \X {"401", "server"})

BackgroundFaults ==
    {NoFault} \cup {<<k[1], k[2], 0>> : k \in BackgroundFaultKinds}

BackgroundEnvs ==
    [resident : {FALSE}, fault : BackgroundFaults, reply : {[success |-> FALSE]},
     clearFails : BOOLEAN]

BackgroundInit ==
    /\ popup = PopupAtLoad
    /\ flows = <<>>
    /\ saves = <<>>
    /\ env \in BackgroundEnvs
    /\ storage \in Storages
    /\ doc = EmptyDoc
    /\ faults = {}
    /\ listeners = <<>>
    /\ reqs = <<>>
    /\ str1 = <<>>
    /\ str2 = <<>>
    /\ simOut = NoCall
    /\ bedCard = EmptyCard
    /\ bedOut = NoText
    /\ argCard = EmptyCard
    /\ argNext = <<>>
    /\ fieldOut = NoText

\* the listener of lines 111-125 receives a save message
SaveRequested ==
    /\ Len(saves) < MaxMessages
    /\ \E request \in SaveRequests :
          saves' = Append(saves, handleSaveToGoogleSheets(0, request))
    /\ UNCHANGED <<popup, flows, storage, env, scriptVars>>

\* the listener receives an authorize message
AuthorizeRequested ==
    /\ Len(saves) < MaxMessages
    /\ saves' = Append(saves, handleAuthorization(0))
    /\ UNCHANGED <<popup, flows, storage, env, scriptVars>>

\* chrome.runtime.onStartup, lines 92-99
Started ==
    /\ Len(saves) < MaxMessages
    /\ saves' = Append(saves, NewValidation("startup", 0))
    /\ UNCHANGED <<popup, flows, storage, env, scriptVars>>

\* chrome.runtime.onInstalled, lines 101-108
Installed ==
    /\ Len(saves) < MaxMessages
    /\ saves' = Append(saves, NewValidation("installed", 0))
    /\ UNCHANGED <<popup, flows, storage, env, scriptVars>>

BackgroundNext ==
    \/ SaveRequested
    \/ AuthorizeRequested
    \/ Started
    \/ Installed
    \/ \E j \in 1..Len(saves) : BackgroundStep(j)

SpecBackground == BackgroundInit /\ [][BackgroundNext]_vars

(***************************************************************************)
(* Specification SpecAnswering: the background script in a smaller set of  *)
(* environments and without the start-up and installation events, where   *)
(* the browser and Google deliver every callback a request waits for: weak *)
(* fairness of each request's next callback.                               *)
(***************************************************************************)
AnsweringFaults ==
    {NoFault, <<"storage", "lastError", 0>>, <<"validate", "expired", 0>>,
     <<"validate", "refreshed", 0>>, <<"authorize", "noToken", 0>>,
     <<"authorize", "unsaved", 0>>, <<"create", "401", 0>>, <<"create", "server", 0>>,
     <<"write", "server", 0>>}

AnsweringInit ==
    /\ popup = PopupAtLoad
    /\ flows = <<>>
    /\ saves = <<>>
    /\ env \in [resident : {FALSE}, fault : AnsweringFaults, reply : {[success |-> FALSE]},
                 clearFails : {FALSE}]
    /\ storage \in {EmptyStorage, [EmptyStorage EXCEPT !.token = s_token]}
    /\ doc = EmptyDoc
    /\ faults = {}
    /\ listeners = <<>>
    /\ reqs = <<>>
    /\ str1 = <<>>
    /\ str2 = <<>>
    /\ simOut = NoCall
    /\ bedCard = EmptyCard
    /\ bedOut = NoText
    /\ argCard = EmptyCard
    /\ argNext = <<>>
    /\ fieldOut = NoText

\* the next callback of request j is delivered
CallbackDelivered(j) ==
    j <= Len(saves) /\ BackgroundStep(j)

AnsweringNext ==
    \/ SaveRequested
    \/ AuthorizeRequested
    \/ \E j \in 1..Len(saves) : BackgroundStep(j)

SpecAnswering ==
    /\ AnsweringInit
    /\ [][AnsweringNext]_vars
    /\ \A j \in 1..MaxMessages : WF_vars(CallbackDelivered(j))

(***************************************************************************)
(* Specification SpecSignIn: the popup with both of its buttons, and the   *)
(* background script.  A click on either button starts a flow; the user    *)
(* clicks once the popup has read the storage.                             *)
(***************************************************************************)
SignInFaultKinds ==
    ({"authorize"} \X {"lastError", "lastErrorNoMessage", "noToken", "unsaved"})
        \cup ({"authorizeMessage"} \X {"lastError", "noResponse"})
        \cup ({"validate"} \X {"expired"})
        \cup ({"create"} \X {"401", "server"})
        \cup ({"save"} \X {"lastError"})

SignInFaults ==
    {NoFault, <<"init", "lastError", 0>>}
        \cup {<<k[1], k[2], c>> : k \in SignInFaultKinds, c \in 1..MaxClicks}

SignInEnvs ==
    [resident : BOOLEAN, fault : {NoFault}, reply : {usualReply}, clearFails : BOOLEAN]
        \cup [resident : {TRUE}, fault : SignInFaults, reply : {usualReply},
               clearFails : {FALSE}]

SignInInit ==
    /\ popup = PopupAtLoad
    /\ flows = <<>>
    /\ saves = <<>>
    /\ env \in SignInEnvs
    /\ storage \in Storages
    /\ doc = EmptyDoc
    /\ faults = {}
    /\ listeners = <<>>
    /\ reqs = <<>>
    /\ str1 = <<>>
    /\ str2 = <<>>
    /\ simOut = NoCall
    /\ bedCard = EmptyCard
    /\ bedOut = NoText
    /\ argCard = EmptyCard
    /\ argNext = <<>>
    /\ fieldOut = NoText

\* a click on "Sign in with Google": the authorize message reaches the
\* background script unless the message fails
AuthorizeClick ==
    /\ popup.initialized
    /\ popup.loginStatus
    /\ ~popup.authorizeDisabled
    /\ Len(flows) < MaxClicks
    /\ popup' = handleAuthorizeClick(popup)
    /\ flows' = Append(flows, [NewFlow EXCEPT !.phase = "authorize"])
    /\ saves' = IF Outcome(env, "authorizeMessage", Len(flows) + 1) = "ok"
                THEN Append(saves, handleAuthorization(Len(flows) + 1))
                ELSE saves
    /\ UNCHANGED <<storage, env, scriptVars>>

\* the popup receives the answer to its authorize message
AuthorizeAnswered(k) ==
    /\ flows[k].phase = "authorize"
    /\ Outcome(env, "authorizeMessage", k) # "ok" \/ SaveOf(k) # {}
    /\ popup' = authorizeAnswered(popup, Outcome(env, "authorizeMessage", k) = "lastError",
                                  SheetsAnswer(k))
    /\ flows' = [flows EXCEPT ![k].phase = "done", ![k].saved = SheetsAnswer(k)]
    /\ UNCHANGED <<storage, saves, env, scriptVars>>

SignInNext ==
    \/ HostNext
    \/ AuthorizeClick
    \/ \E k \in 1..Len(flows) : AuthorizeAnswered(k)

SpecSignIn == SignInInit /\ [][SignInNext]_vars

(***************************************************************************)
(* C1: for every pair of strings, areStringSimilar returns true when one   *)
(* string contains the other; otherwise false when the lengths differ by   *)
(* more than 3; otherwise true exactly when the number of positions below  *)
(* the shorter length holding equal characters, divided by the longer      *)
(* length, is at least 0.8.                                                *)
(***************************************************************************)
AlignedMatches(a, b) ==
    Cardinality({i \in 1..Len(a) : i <= Len(b) /\ a[i] = b[i]})

Contains(a, b) ==
    \E pre, post \in 0..Len(a) :
        /\ pre + Len(b) + post = Len(a)
        /\ \A k \in 1..Len(b) : a[pre + k] = b[k]

SimilarReference(a, b) ==
    CASE Contains(a, b) \/ Contains(b, a) -> TRUE
      [] abs(Len(a) - Len(b)) > 3 -> FALSE
      [] OTHER -> 5 * AlignedMatches(a, b) >= 4 * max(Len(a), Len(b))

C1_SimilarMatchesReference ==
    simOut.done => simOut.value = SimilarReference(str1, str2)

\* a pair decided by the 80% rule alone: no containment, lengths within 3
C1_Witness ==
    /\ simOut.done
    /\ simOut.value
    /\ ~Contains(str1, str2) /\ ~Contains(str2, str1)
    /\ Len(str1) = 5 /\ Len(str2) = 5

(***************************************************************************)
(* C2: areStringSimilar("ab", "abcdefg") returns false because the lengths *)
(* differ by more than 3.                                                  *)
(***************************************************************************)
C2_AbAbcdefgFalse ==
    (simOut.done /\ str1 = s_ab /\ str2 = s_abcdefg) => simOut.value = FALSE

\* C2 as amended: areStringSimilar("ab", "abcdefg") returns true, because
\* "abcdefg" contains "ab" and the containment test runs before the length
\* test
C2_AbAbcdefgTrue ==
    (simOut.done /\ str1 = s_ab /\ str2 = s_abcdefg) =>
        (simOut.value = TRUE /\ includes(str2, str1))

C2_Witness ==
    simOut.done /\ str1 = s_ab /\ str2 = s_abcdefg

(***************************************************************************)
(* Requests of Spec the claims below speak of                              *)
(***************************************************************************)
ExtractIds == {k \in 1..Len(reqs) : reqs[k].action = ExtractAction}

\* the request's run reached findListingCards and the call returned
Located(k) == reqs[k].run.locatorRuns = 1 /\ <<"locator", 0>> \notin faults

MatchingSelectors == {k \in 1..Len(selectors) :
                        \E i \in 1..Len(doc.body) : selectors[k] \in doc.body[i].sels}

IsSuccess(resp) == resp.success /\ DOMAIN resp = {"success", "data", "wishlistName"}

(***************************************************************************)
(* C3: findListingCards tries its selectors in order and returns exactly   *)
(* the elements matched by the first selector that matches at least one    *)
(* element; later selectors are not queried, an earlier selector matching  *)
(* nothing is no error, and when no selector matches the result is the     *)
(* empty sequence, without exception.                                      *)
(***************************************************************************)
C3_FirstMatchingSelector ==
    \A k \in ExtractIds : Located(k) =>
        LET run == reqs[k].run
        IN  IF MatchingSelectors = {}
            THEN /\ run.located = <<>>
                 /\ run.queried = Len(selectors)
                 /\ ~reqs[k].escaped
                 /\ run.responses = <<handleNoListingsFound>>
            ELSE LET first == SetMin(MatchingSelectors)
                 IN  /\ run.queried = first
                     /\ \A i \in 1..Len(doc.body) :
                           (\E j \in 1..Len(run.located) : run.located[j] = i)
                               <=> selectors[first] \in doc.body[i].sels
                     /\ \A j \in 1..(Len(run.located) - 1) :
                           run.located[j] < run.located[j + 1]

\* a fallback selector supplied the cards although a later selector matches
\* an element that is not among them
C3_Witness ==
    \E k \in ExtractIds :
        /\ Located(k)
        /\ reqs[k].run.queried >= 2
        /\ Len(reqs[k].run.located) >= 1
        /\ \E i \in 1..Len(doc.body) :
              /\ doc.body[i].sels # {}
              /\ \A j \in 1..Len(reqs[k].run.located) : reqs[k].run.located[j] # i

(***************************************************************************)
(* C4: whenever the card locator returns N > 0 cards, the success response *)
(* carries exactly N records and the i-th record is the one extracted from *)
(* the i-th located card.                                                  *)
(***************************************************************************)
RecordOf(i) ==
    [propertyName |-> extractPropertyName(doc.body[i], <<"propertyName", i>> \in faults),
     rating |-> extractRating(doc.body[i], <<"rating", i>> \in faults),
     date |-> extractDate(doc, doc.body[i], <<"date", i>> \in faults),
     beds |-> extractBedInfo(doc.body[i], <<"beds", i>> \in faults),
     totalPrice |-> extractPrice(doc.body[i], <<"totalPrice", i>> \in faults),
     link |-> extractLink(doc.body[i], <<"link", i>> \in faults),
     comment |-> extractComment(doc.body[i], nextElementSibling(doc, i),
                                <<"comment", i>> \in faults)]

C4_OneRecordPerCardInOrder ==
    \A k \in ExtractIds :
        (Located(k) /\ Len(reqs[k].run.located) > 0 /\ <<"assembly", 0>> \notin faults) =>
            LET run == reqs[k].run
            IN  /\ Len(run.responses) = 1
                /\ IsSuccess(run.responses[1])
                /\ Len(run.responses[1].data) = Len(run.located)
                /\ \A j \in 1..Len(run.located) :
                      run.responses[1].data[j] = RecordOf(run.located[j])

\* two located cards that yield different records
C4_Witness ==
    \E k \in ExtractIds :
        /\ Located(k)
        /\ Len(reqs[k].run.located) >= 2
        /\ Len(reqs[k].run.responses) = 1
        /\ IsSuccess(reqs[k].run.responses[1])
        /\ reqs[k].run.responses[1].data[1] # reqs[k].run.responses[1].data[2]

(***************************************************************************)
(* C5: a fault inside a field extractor for a card becomes the empty       *)
(* string for that field only: the card's record exists with its other     *)
(* fields extracted normally, the other cards' records are unaffected and  *)
(* the run returns success; a card whose every extractor faults still      *)
(* yields a record, all fields empty.                                      *)
(***************************************************************************)
FaultFree(i) ==
    [propertyName |-> extractPropertyName(doc.body[i], FALSE),
     rating |-> extractRating(doc.body[i], FALSE),
     date |-> extractDate(doc, doc.body[i], FALSE),
     beds |-> extractBedInfo(doc.body[i], FALSE),
     totalPrice |-> extractPrice(doc.body[i], FALSE),
     link |-> extractLink(doc.body[i], FALSE),
     comment |-> extractComment(doc.body[i], nextElementSibling(doc, i), FALSE)]

FieldFaults == {p \in faults : p[1] \in Fields}

C5_FieldFaultIsolated ==
    \A k \in ExtractIds :
        (Located(k) /\ Len(reqs[k].run.located) > 0 /\ FieldFaults # {}) =>
            LET run == reqs[k].run
            IN  /\ Len(run.responses) = 1
                /\ IsSuccess(run.responses[1])
                /\ Len(run.responses[1].data) = Len(run.located)
                /\ \A j \in 1..Len(run.located) :
                      LET normally == FaultFree(run.located[j])
                      IN  \A f \in Fields :
                              run.responses[1].data[j][f] =
                                  IF <<f, run.located[j]>> \in faults
                                  THEN <<>>
                                  ELSE normally[f]

\* every extractor faults for the first card, whose fault-free record has a
\* non-empty field, and the second card's record keeps a non-empty field
C5_Witness ==
    \E k \in ExtractIds :
        /\ Located(k)
        /\ Len(reqs[k].run.located) >= 2
        /\ \A f \in Fields : <<f, reqs[k].run.located[1]>> \in faults
        /\ \E f \in Fields : FaultFree(reqs[k].run.located[1])[f] # <<>>
        /\ Len(reqs[k].run.responses) = 1
        /\ IsSuccess(reqs[k].run.responses[1])
        /\ \A f \in Fields : reqs[k].run.responses[1].data[1][f] = <<>>
        /\ \E f \in Fields : reqs[k].run.responses[1].data[2][f] # <<>>

(***************************************************************************)
(* C6: when the card locator returns zero cards the response is            *)
(* {success: false, error: "No listing cards found..."} without data and   *)
(* without wishlistName, no field extractor is invoked and the locator is  *)
(* not run again for the request.                                          *)
(***************************************************************************)
C6_NoCardsFailure ==
    \A k \in ExtractIds :
        (Located(k) /\ reqs[k].run.located = <<>>) =>
            LET run == reqs[k].run
            IN  /\ Len(run.responses) = 1
                /\ DOMAIN run.responses[1] = {"success", "error"}
                /\ run.responses[1].success = FALSE
                /\ run.responses[1].error =
                       "No listing cards found. Please refresh the page and try again."
                /\ run.extractorCalls = 0
                /\ run.locatorRuns = 1

\* a page with elements, none of them a card
C6_Witness ==
    \E k \in ExtractIds :
        /\ Located(k)
        /\ reqs[k].run.located = <<>>
        /\ Len(doc.body) > 0
        /\ Len(reqs[k].run.responses) = 1

(***************************************************************************)
(* C7: a fault raised during an extraction request outside the field       *)
(* extractors (in the card locator, in record assembly or in the listener  *)
(* itself), in an immediate or a deferred run, results in the response     *)
(* {success: false, error: the fault's message} and never in an exception  *)
(* leaving the message listener or the load callback.                      *)
(***************************************************************************)
\* the site outside the extractors that throws for request k, "" when none
ThrowingSite(k) ==
    IF <<"handler", 0>> \in faults THEN "handler"
    ELSE IF reqs[k].run.locatorRuns = 0 THEN ""
    ELSE IF <<"locator", 0>> \in faults THEN "locator"
    ELSE IF <<"assembly", 0>> \in faults /\ Len(reqs[k].run.located) > 0 THEN "assembly"
    ELSE ""

C7_FaultBecomesFailureResponse ==
    \A k \in ExtractIds :
        /\ ~reqs[k].escaped
        /\ ~reqs[k].run.threw
        /\ ThrowingSite(k) # "" =>
              reqs[k].run.responses =
                  <<[success |-> FALSE, error |-> FaultMessage(ThrowingSite(k))]>>

\* a deferred run whose card locator threw
C7_Witness ==
    \E k \in ExtractIds :
        /\ reqs[k].deferred
        /\ ThrowingSite(k) = "locator"
        /\ Len(reqs[k].run.responses) = 1
        /\ ~reqs[k].run.responses[1].success

(***************************************************************************)
(* C8: if the document is loading when an extraction request arrives, the  *)
(* card locator and the extractors do not run and no response is sent      *)
(* until the load-completion event fires, after which they run once; if    *)
(* the document is not loading they run and the response is sent before    *)
(* the listener returns.  (Stated for requests whose listener does not     *)
(* throw; C7 covers those that do.)                                        *)
(***************************************************************************)
C8_DeferredUntilLoaded ==
    \A k \in ExtractIds : <<"handler", 0>> \notin faults =>
        LET r == reqs[k]
        IN  IF r.loading
            THEN /\ r.deferred
                 /\ r.sync = 0
                 /\ doc.readyState = "loading" =>
                       /\ r.run.responses = <<>>
                       /\ r.run.locatorRuns = 0
                       /\ r.run.extractorCalls = 0
                 /\ doc.readyState # "loading" =>
                       /\ r.run.locatorRuns = 1
                       /\ Len(r.run.responses) = 1
            ELSE /\ ~r.deferred
                 /\ r.run.locatorRuns = 1
                 /\ r.sync = 1
                 /\ Len(r.run.responses) = 1

\* a request that arrived during loading and was answered with records after
\* the event
C8_Witness ==
    \E k \in ExtractIds :
        /\ reqs[k].loading
        /\ doc.readyState = "interactive"
        /\ reqs[k].sync = 0
        /\ Len(reqs[k].run.responses) = 1
        /\ reqs[k].run.responses[1].success
        /\ reqs[k].run.extractorCalls > 0

(***************************************************************************)
(* C9: bed-info deduplication.  For the text T of the third non-hidden     *)
(* child: when len(T) is odd the result is T; when len(T) is even, T is    *)
(* split into two equal halves and the result is the first half when the   *)
(* halves are identical or the similarity matcher judges them similar, and *)
(* T otherwise.                                                            *)
(***************************************************************************)
\* the third child that is a div and not hidden, if the card has one
HasBedChild(card) ==
    /\ card.detailsEls # <<>>
    /\ Cardinality({k \in 1..Len(card.detailsEls[1]) :
           card.detailsEls[1][k].div /\ ~card.detailsEls[1][k].hidden}) >= 3

BedChildText(card) ==
    LET kids == card.detailsEls[1]
        shown == {k \in 1..Len(kids) : kids[k].div /\ ~kids[k].hidden}
        third == CHOOSE k \in shown : Cardinality({j \in shown : j < k}) = 2
    IN  trim(kids[third].text)

FirstHalf(T) == SubSeq(T, 1, Len(T) \div 2)
SecondHalf(T) == SubSeq(T, Len(T) \div 2 + 1, Len(T))

C9_BedDedupUntrimmedHalves ==
    (bedOut.done /\ HasBedChild(bedCard)) =>
        LET T == BedChildText(bedCard)
        IN  bedOut.value =
                IF Len(T) % 2 = 1 THEN T
                ELSE IF FirstHalf(T) = SecondHalf(T)
                        \/ areStringSimilar(FirstHalf(T), SecondHalf(T))
                     THEN FirstHalf(T)
                     ELSE T

\* C9 as amended: T is the trimmed text of the third non-hidden child; when
\* len(T) is odd the result is T; when len(T) is even, T is split into two
\* equal halves, each half is trimmed of white space, and the result is the
\* trimmed first half when the trimmed halves are identical or the
\* similarity matcher judges them similar, and T otherwise.
C9_BedDedupTrimmedHalves ==
    (bedOut.done /\ HasBedChild(bedCard)) =>
        LET T == BedChildText(bedCard)
            first == trim(FirstHalf(T))
            second == trim(SecondHalf(T))
        IN  bedOut.value =
                IF Len(T) % 2 = 1 THEN T
                ELSE IF first = second \/ SimilarReference(first, second)
                     THEN first
                     ELSE T

\* an even-length text whose halves differ and are similar, collapsed to the
\* first half
C9_Witness ==
    /\ bedOut.done
    /\ HasBedChild(bedCard)
    /\ LET T == BedChildText(bedCard)
       IN  /\ Len(T) % 2 = 0
           /\ Len(T) > 0
           /\ trim(FirstHalf(T)) # trim(SecondHalf(T))
           /\ bedOut.value = trim(FirstHalf(T))

(***************************************************************************)
(* C10: bed-info extraction maps "2 beds2 beds" to "2 beds", leaves        *)
(* "3 bedrooms" unchanged and leaves "1 bed2 baths" unchanged.             *)
(***************************************************************************)
C10_BedExamples ==
    (bedOut.done /\ HasBedChild(bedCard)) =>
        LET T == BedChildText(bedCard)
        IN  /\ T = s_2beds2beds => bedOut.value = s_2beds
            /\ T = s_3bedrooms => bedOut.value = s_3bedrooms
            /\ T = s_1bed2baths => bedOut.value = s_1bed2baths

C10_Witness ==
    /\ bedOut.done
    /\ HasBedChild(bedCard)
    /\ BedChildText(bedCard) = s_2beds2beds
    /\ bedOut.value = s_2beds

(***************************************************************************)
(* C11: when a price element is found, extractPrice removes each of the    *)
(* leading label phrases "Total:", "Gesamtpreis:" and "Insgesamt" from the *)
(* start of its trimmed text; element text "Gesamtpreis: €540" yields      *)
(* "€540".                                                                 *)
(***************************************************************************)
IsBlank(s) == \A i \in 1..Len(s) : s[i] \in Whitespace

\* s without a leading label and the white space after it
WithoutLabel(s, label) ==
    IF Len(s) >= Len(label) /\ \A i \in 1..Len(label) : s[i] = label[i]
    THEN LET rest == {n \in Len(label)..Len(s) :
                        /\ IsBlank(SubSeq(s, Len(label) + 1, n))
                        /\ n < Len(s) => s[n + 1] \notin Whitespace}
         IN  SubSeq(s, (CHOOSE n \in rest : TRUE) + 1, Len(s))
    ELSE s

C11_StripsTotalGesamtpreisInsgesamt ==
    (fieldOut.done /\ argCard.priceEls # <<>>) =>
        LET text == trim(argCard.priceEls[1])
        IN  /\ fieldOut.value =
                  WithoutLabel(WithoutLabel(WithoutLabel(text, s_Total),
                                            s_Gesamtpreis), s_Insgesamt)
            /\ argCard.priceEls[1] = s_GesamtpreisEur540 => fieldOut.value = s_eur540

\* C11 as amended: when a price element is found, extractPrice removes from
\* the start of its trimmed text a leading "Gesamtpreis:" with the white
\* space after it and then a leading "Insgesamt" with the white space after
\* it; a leading "Total:" is not removed; element text "Gesamtpreis: €540"
\* yields "€540".
C11_StripsGesamtpreisInsgesamt ==
    (fieldOut.done /\ argCard.priceEls # <<>>) =>
        LET text == trim(argCard.priceEls[1])
        IN  /\ fieldOut.value =
                  WithoutLabel(WithoutLabel(text, s_Gesamtpreis), s_Insgesamt)
            /\ argCard.priceEls[1] = s_GesamtpreisEur540 => fieldOut.value = s_eur540

\* a text with both labels is reduced to its amount
C11_Witness ==
    /\ fieldOut.done
    /\ argCard.priceEls # <<>>
    /\ argCard.priceEls[1] = s_Gesamtpreis \o <<" ">> \o s_Insgesamt \o s_eur540
    /\ fieldOut.value = s_eur540

(***************************************************************************)
(* C15: extractPrice uses the currency-symbol fallback only when the card  *)
(* has no price/total element: it then returns the full trimmed text of    *)
(* the first descendant text-bearing element, in document order, whose     *)
(* text contains "€" or "$", and the empty string if there is none; when a *)
(* price/total element exists the fallback scan is never used, whatever    *)
(* that element's text is.                                                 *)
(***************************************************************************)
CurrencyEls(card) ==
    {i \in 1..Len(card.textEls) :
        \E n \in 1..Len(card.textEls[i]) : card.textEls[i][n] \in {"€", "$"}}

C15_FallbackOnlyWithoutPriceElement ==
    fieldOut.done =>
        IF argCard.priceEls = <<>>
        THEN fieldOut.value =
                 IF CurrencyEls(argCard) = {} THEN <<>>
                 ELSE trim(argCard.textEls[SetMin(CurrencyEls(argCard))])
        ELSE fieldOut.value =
                 WithoutLabel(WithoutLabel(trim(argCard.priceEls[1]), s_Gesamtpreis),
                              s_Insgesamt)

\* the scan passes elements without currency symbol and returns the first
\* with one, trimmed
C15_Witness ==
    /\ fieldOut.done
    /\ argCard.priceEls = <<>>
    /\ CurrencyEls(argCard) # {}
    /\ SetMin(CurrencyEls(argCard)) > 1
    /\ fieldOut.value # argCard.textEls[SetMin(CurrencyEls(argCard))]
    /\ fieldOut.value = trim(argCard.textEls[SetMin(CurrencyEls(argCard))])

(***************************************************************************)
(* C12: extractLink returns "https://www.airbnb.com/rooms/<id>" whenever   *)
(* the href of the card's listing anchor contains a /rooms/<digits>        *)
(* segment (the query is dropped: "/rooms/12345678?source=wishlist" gives  *)
(* "https://www.airbnb.com/rooms/12345678"); for a listing href without    *)
(* numeric id segment it returns the base domain followed by the href up   *)
(* to its query string; without listing anchor it returns "".              *)
(***************************************************************************)
\* the positions of href where "/rooms/" is followed by a digit
RoomIdStarts(href) ==
    {i \in 1..Len(href) :
        /\ i + 7 <= Len(href)
        /\ \A n \in 1..7 : href[i + n - 1] = s_rooms[n]
        /\ href[i + 7] \in Digits}

\* the digits that follow the marker at position i
RoomIdAt(href, i) ==
    LET ends == {e \in (i + 7)..Len(href) :
                    /\ \A n \in (i + 7)..e : href[n] \in Digits
                    /\ e < Len(href) => href[e + 1] \notin Digits}
    IN  SubSeq(href, i + 7, CHOOSE e \in ends : TRUE)

\* href up to its first "?"
PathOf(href) ==
    LET cuts == {n \in 0..Len(href) :
                    /\ \A k \in 1..n : href[k] # "?"
                    /\ n < Len(href) => href[n + 1] = "?"}
    IN  SubSeq(href, 1, CHOOSE n \in cuts : TRUE)

C12_CanonicalLink ==
    fieldOut.done =>
        IF argCard.linkEls = <<>> THEN fieldOut.value = <<>>
        ELSE LET href == argCard.linkEls[1]
             IN  /\ fieldOut.value =
                       IF RoomIdStarts(href) # {}
                       THEN s_base \o s_rooms \o RoomIdAt(href, SetMin(RoomIdStarts(href)))
                       ELSE s_base \o PathOf(href)
                 /\ href = s_hrefExample => fieldOut.value = s_canonicalExample

\* a listing href without numeric id and with a query string
C12_Witness ==
    /\ fieldOut.done
    /\ argCard.linkEls # <<>>
    /\ RoomIdStarts(argCard.linkEls[1]) = {}
    /\ PathOf(argCard.linkEls[1]) # argCard.linkEls[1]
    /\ fieldOut.value = s_base \o PathOf(argCard.linkEls[1])

(***************************************************************************)
(* C13: extractComment returns the text of the comment-text element of the *)
(* element right after the card, with the first occurrence of the edit     *)
(* label "Bearbeiten" (in any case) removed and the result trimmed, when   *)
(* that element carries the comment-wrapper marker class and contains a    *)
(* comment-text element; in every other case (no next sibling, sibling     *)
(* without the marker, no comment-text element) it returns the empty       *)
(* string; whether the card's link holds a listing id makes no difference. *)
(***************************************************************************)
\* the positions of text where the edit label stands, in any case
EditLabelStarts(text) ==
    {i \in 1..Len(text) :
        /\ i + 9 <= Len(text)
        /\ \A n \in 1..10 : text[i + n - 1] \in {s_bearbeiten[n], s_BEARBEITEN[n]}}

WithoutEditLabel(text) ==
    IF EditLabelStarts(text) = {} THEN text
    ELSE LET at == SetMin(EditLabelStarts(text))
         IN  [n \in 1..(Len(text) - 10) |-> IF n < at THEN text[n] ELSE text[n + 10]]

HasComment(next) ==
    /\ next # <<>>
    /\ next[1].wrapper
    /\ next[1].commentEls # <<>>

C13_CommentOnlyFromWrapperSibling ==
    fieldOut.done =>
        /\ fieldOut.value =
              IF HasComment(argNext)
              THEN trim(WithoutEditLabel(argNext[1].commentEls[1]))
              ELSE <<>>
        /\ \A c \in CommentCards : extractComment(c, argNext, FALSE) = fieldOut.value

\* a comment with the label in upper case, on a card whose link has no id
C13_Witness ==
    /\ fieldOut.done
    /\ HasComment(argNext)
    /\ argCard.linkEls # <<>>
    /\ matchRoomId(argCard.linkEls[1]) = <<>>
    /\ argNext[1].commentEls[1] = <<"H", "i", " ">> \o s_BEARBEITEN \o <<" ", "o", "k", " ">>
    /\ fieldOut.value = <<"H", "i", " ", " ", "o", "k">>

(***************************************************************************)
(* C16: extractRating returns the first substring of the rating element's  *)
(* text that has the shape digits, one "." or ",", digits (the leftmost    *)
(* one, as long as it can be, with the separator as found), and the empty  *)
(* string when the card has no rating element or its text has no such      *)
(* substring (an integer-only or textual rating).                          *)
(***************************************************************************)
\* s[a..b] is digits, one separator, digits
IsDecimalShape(s, a, b) ==
    \E p \in (a + 1)..(b - 1) :
        /\ s[p] \in {".", ","}
        /\ \A n \in a..b : n # p => s[n] \in Digits

DecimalSpans(s) ==
    {ab \in (1..Len(s)) \X (1..Len(s)) : ab[1] < ab[2] /\ IsDecimalShape(s, ab[1], ab[2])}

FirstDecimal(s) ==
    LET first == SetMin({ab[1] : ab \in DecimalSpans(s)})
        last == CHOOSE b \in {ab[2] : ab \in {x \in DecimalSpans(s) : x[1] = first}} :
                    \A ab \in DecimalSpans(s) : ab[1] = first => ab[2] <= b
    IN  SubSeq(s, first, last)

C16_FirstDecimalOrEmpty ==
    fieldOut.done =>
        /\ fieldOut.value =
              IF argCard.ratingEls = <<>> \/ DecimalSpans(argCard.ratingEls[1]) = {}
              THEN <<>>
              ELSE FirstDecimal(argCard.ratingEls[1])
        /\ (argCard.ratingEls # <<>> /\ argCard.ratingEls[1] = s_rating492)
               => fieldOut.value = <<"4", ",", "9", "2">>

\* a comma-separated rating after other text
C16_Witness ==
    /\ fieldOut.done
    /\ argCard.ratingEls # <<>>
    /\ argCard.ratingEls[1] = <<"x", "4", ",", "9">>
    /\ fieldOut.value = <<"4", ",", "9">>

(***************************************************************************)
(* C18: extractPropertyName returns the trimmed text of the primary        *)
(* (subtitle) element when the card has one, even an empty text; only when *)
(* the primary element is absent does it return the trimmed text of the    *)
(* first secondary (title-marked) element; when both are absent it returns *)
(* the empty string.                                                       *)
(***************************************************************************)
C18_PrimaryThenSecondaryName ==
    fieldOut.done =>
        /\ argCard.subtitleEls # <<>> => fieldOut.value = trim(argCard.subtitleEls[1])
        /\ (argCard.subtitleEls = <<>> /\ argCard.titleEls # <<>>)
               => fieldOut.value = trim(argCard.titleEls[1])
        /\ (argCard.subtitleEls = <<>> /\ argCard.titleEls = <<>>)
               => fieldOut.value = <<>>

\* a primary element of blank text hides a secondary element that has a name
C18_Witness ==
    /\ fieldOut.done
    /\ argCard.subtitleEls # <<>>
    /\ argCard.titleEls # <<>>
    /\ trim(argCard.subtitleEls[1]) = <<>>
    /\ trim(argCard.titleEls[1]) = <<"B">>
    /\ fieldOut.value = <<>>

(***************************************************************************)
(* C14: within one extraction run every record carries the same date: the  *)
(* date extractor does not look at its card but at the first date control  *)
(* of the whole document, so every record whose date extractor did not     *)
(* fault gets that control's trimmed text, or the empty string when the    *)
(* document has no date control.                                           *)
(***************************************************************************)
CardsWithDateControl == {i \in 1..Len(doc.body) : doc.body[i].dateEls # <<>>}

DocumentDate ==
    IF doc.dateEls # <<>> THEN trim(doc.dateEls[1])
    ELSE IF CardsWithDateControl # {}
         THEN trim(doc.body[SetMin(CardsWithDateControl)].dateEls[1])
         ELSE <<>>

C14_SameDateInEveryRecord ==
    \A k \in ExtractIds :
        \A r \in 1..Len(reqs[k].run.responses) :
            IsSuccess(reqs[k].run.responses[r]) =>
                \A j \in 1..Len(reqs[k].run.responses[r].data) :
                    reqs[k].run.responses[r].data[j].date =
                        IF <<"date", reqs[k].run.located[j]>> \in faults
                        THEN <<>>
                        ELSE DocumentDate

\* two cards that each hold a date control of their own, in a page whose
\* header holds another one: both records carry the date of the header
C14_Witness ==
    \E k \in ExtractIds :
        /\ Len(reqs[k].run.responses) = 1
        /\ IsSuccess(reqs[k].run.responses[1])
        /\ Len(reqs[k].run.responses[1].data) >= 2
        /\ doc.dateEls # <<>>
        /\ \A j \in 1..Len(reqs[k].run.responses[1].data) :
              /\ doc.body[reqs[k].run.located[j]].dateEls # <<>>
              /\ reqs[k].run.responses[1].data[j].date
                     # trim(doc.body[reqs[k].run.located[j]].dateEls[1])
              /\ reqs[k].run.responses[1].data[j].date = trim(doc.dateEls[1])

(***************************************************************************)
(* C19: the wishlist name of every success response is the trimmed text of *)
(* the page's first h1 heading, or the placeholder "Airbnb Wishlist" when  *)
(* the heading is absent, its text is empty after trimming, or the lookup  *)
(* faults; a fault in the lookup never prevents the extraction from        *)
(* running.                                                                *)
(***************************************************************************)
ExpectedWishlistName ==
    IF \/ <<"name", 0>> \in faults
       \/ doc.h1Els = <<>>
       \/ IsBlank(doc.h1Els[1])
    THEN s_AirbnbWishlist
    ELSE trim(doc.h1Els[1])

C19_WishlistNameOrPlaceholder ==
    \A k \in ExtractIds :
        /\ \A r \in 1..Len(reqs[k].run.responses) :
              IsSuccess(reqs[k].run.responses[r]) =>
                  reqs[k].run.responses[r].wishlistName = ExpectedWishlistName
        /\ (<<"name", 0>> \in faults /\ ~(reqs[k].loading /\ doc.readyState = "loading"))
               => reqs[k].run.locatorRuns = 1

\* the lookup faults in a page that has a heading, and the run answers with
\* records under the placeholder name
C19_Witness ==
    \E k \in ExtractIds :
        /\ <<"name", 0>> \in faults
        /\ doc.h1Els # <<>>
        /\ ~IsBlank(doc.h1Els[1])
        /\ Len(reqs[k].run.responses) = 1
        /\ IsSuccess(reqs[k].run.responses[1])
        /\ Len(reqs[k].run.responses[1].data) >= 1
        /\ reqs[k].run.responses[1].wishlistName = s_AirbnbWishlist

(***************************************************************************)
(* C20: a ping is answered at once with {success: true} in every state of  *)
(* the page (loading or loaded, with or without cards, with or without an  *)
(* extraction pending), and it starts no extraction.                       *)
(***************************************************************************)
PingIds == {k \in 1..Len(reqs) : reqs[k].action = PingAction}

C20_PingAnsweredAtOnce ==
    \A k \in PingIds :
        /\ reqs[k].run.responses = <<[success |-> TRUE]>>
        /\ reqs[k].sync = 1
        /\ ~reqs[k].escaped
        /\ ~reqs[k].deferred
        /\ \A j \in 1..Len(listeners) : listeners[j] # k
        /\ reqs[k].run.locatorRuns = 0
        /\ reqs[k].run.extractorCalls = 0
        /\ reqs[k].run.located = <<>>

\* a ping is answered while the page loads and an extraction waits for it
C20_Witness ==
    /\ doc.readyState = "loading"
    /\ doc.body # <<>>
    /\ \E k \in PingIds :
          /\ reqs[k].loading
          /\ reqs[k].run.responses = <<[success |-> TRUE]>>
          /\ \E e \in ExtractIds :
                /\ e < k
                /\ reqs[e].deferred
                /\ reqs[e].run.responses = <<>>

(***************************************************************************)
(* C17: for a card without rating element the record has rating "" and     *)
(* its other fields are extracted as usual.  Taking the rating element out *)
(* of a card, or putting it in, changes no other record, and in the card's *)
(* own record no field whose extractor reads elements that neither are nor *)
(* contain the rating element: name, date, beds, link and comment here,    *)
(* and the price unless it comes from the currency scan picking a div that *)
(* contains the rating element.                                            *)
(***************************************************************************)
withoutRating(tree) ==
    [tree EXCEPT !.children =
        SelectSeq(tree.children, LAMBDA c : "rating" \notin c.marks)]

\* tree with its rating elements taken out, or with rating elements put in
RatingVariants(tree) ==
    {t \in CardTrees : t = withoutRating(tree) \/ withoutRating(t) = tree}

HasRatingSpan(tree) ==
    \E n \in 1..Len(tree.children) : "rating" \in tree.children[n].marks

\* the currency scan is used and its first hit is the div around the spans
PriceReadsWrapper(tree) ==
    /\ tree.wrapped
    /\ \A n \in 1..Len(tree.children) : "price" \notin tree.children[n].marks
    /\ \E n \in 1..Len(tree.children) : hasCurrency(tree.children[n].text)

\* the record of card j in the page that has variant in the place of card i
RecordWith(i, variant, j) ==
    extractListingData([doc EXCEPT !.body[i] = cardOf(variant)], faults, j, 1).value

RunData == fieldOut.value[1].data

Answered(k) == Len(reqs[k].run.responses) > 0

SameResponses ==
    \A a, b \in ExtractIds :
        (Answered(a) /\ Answered(b)) =>
            /\ reqs[a].run.responses = reqs[b].run.responses
            /\ reqs[a].wishlistName = reqs[b].wishlistName

C28_NameResolvedOnArrival ==
    [][/\ (Len(reqs') > Len(reqs) /\ reqs'[Len(reqs')].action = ExtractAction) =>
             /\ reqs'[Len(reqs')].wishlistName = ExpectedWishlistName
             /\ reqs'[Len(reqs')].deferred => reqs'[Len(reqs')].run.locatorRuns = 0
       /\ \A k \in ExtractIds :
             /\ reqs'[k].wishlistName = reqs[k].wishlistName
             /\ \A r \in 1..Len(reqs'[k].run.responses) :
                   IsSuccess(reqs'[k].run.responses[r]) =>
                       reqs'[k].run.responses[r].wishlistName = reqs[k].wishlistName
      ]_vars

\* a deferred run answered with records under the placeholder although the
\* page has a heading by then and the lookup does not fault
C28_Witness ==
    \E k \in ExtractIds :
        /\ reqs[k].deferred
        /\ <<"name", 0>> \notin faults
        /\ doc.h1Els # <<>>
        /\ ~IsBlank(doc.h1Els[1])
        /\ Len(reqs[k].run.responses) = 1
        /\ IsSuccess(reqs[k].run.responses[1])
        /\ reqs[k].run.responses[1].wishlistName = s_AirbnbWishlist
        /\ reqs[k].run.locatorRuns = 1

(***************************************************************************)
(* C29: every extraction request receives exactly one response.  At no     *)
(* time has a request two responses; a request has none only while it      *)
(* waits, deferred, for a document that is still loading; and every        *)
(* extraction request (on the success path, the no-cards path and the      *)
(* fault path) eventually has its one response, given that the             *)
(* load-completion event fires; requests deferred together each get their  *)
(* own.                                                                    *)
(***************************************************************************)
Waiting(k) == reqs[k].deferred /\ doc.readyState = "loading"

AtMostOneResponse ==
    \A k \in ExtractIds :
        /\ Len(reqs[k].run.responses) <= 1
        /\ Len(reqs[k].run.responses) = 0 <=> Waiting(k)

C29_ExactlyOneResponse ==
    /\ []AtMostOneResponse
    /\ \A k \in 1..MaxRequests :
          (k <= Len(reqs) /\ reqs[k].action = ExtractAction)
              ~> (k <= Len(reqs) /\ Len(reqs[k].run.responses) = 1)

\* two requests deferred during loading, each answered once after the event,
\* on the fault path
C29_Witness ==
    /\ doc.readyState = "interactive"
    /\ Cardinality({k \in ExtractIds : reqs[k].deferred}) >= 2
    /\ \A k \in ExtractIds :
          /\ Len(reqs[k].run.responses) = 1
          /\ ~reqs[k].run.responses[1].success
          /\ reqs[k].run.locatorRuns = 1
    /\ <<"locator", 0>> \in faults

(***************************************************************************)
(* C21: for a save request with N listing records, the rows handed to the  *)
(* write are exactly N + 1 rows: first the header row "Property Name",     *)
(* "Rating", "Date", "Beds", "Total Price", "Link to listing", "Comment",  *)
(* then one row per record in the order of the records, each row holding   *)
(* propertyName, rating, date, beds, totalPrice, link, comment in that     *)
(* order, a missing field written as the empty string.                     *)
(***************************************************************************)
WriteCalls ==
    {<<j, c>> \in (1..Len(saves)) \X (1..4) :
        c <= Len(saves[j].calls) /\ saves[j].calls[c].api = "write"}

Cell(record, f) == IF f \in DOMAIN record THEN record[f] ELSE <<>>

C21_RowsAreHeaderThenRecords ==
    \A w \in WriteCalls :
        LET records == saves[w[1]].request.wishlistData
            rows == saves[w[1]].calls[w[2]].values
        IN  /\ Len(rows) = Len(records) + 1
            /\ rows[1] = <<<<"Property Name">>, <<"Rating">>, <<"Date">>, <<"Beds">>,
                           <<"Total Price">>, <<"Link to listing">>, <<"Comment">>>>
            /\ \A i \in 1..Len(records) :
                  rows[i + 1] = <<Cell(records[i], "propertyName"), Cell(records[i], "rating"),
                                  Cell(records[i], "date"), Cell(records[i], "beds"),
                                  Cell(records[i], "totalPrice"), Cell(records[i], "link"),
                                  Cell(records[i], "comment")>>

\* two records written, the second with fields missing
C21_Witness ==
    \E w \in WriteCalls :
        /\ saves[w[1]].calls[w[2]].result = "ok"
        /\ Len(saves[w[1]].request.wishlistData) = 2
        /\ Len(saves[w[1]].calls[w[2]].values) = 3
        /\ saves[w[1]].calls[w[2]].values[2][1] = s_Hut
        /\ saves[w[1]].calls[w[2]].values[2][5] # <<>>
        /\ saves[w[1]].calls[w[2]].values[3] =
               <<s_Hut, <<>>, <<>>, <<>>, <<>>, s_canonicalExample, <<>>>>

(***************************************************************************)
(* C30: in every save the persistence calls are started in the order       *)
(* create document, read metadata, clear range, write rows, each only      *)
(* after the one before it succeeded; the success response, with the id    *)
(* and URL of the created document, is sent only after the write           *)
(* succeeded; and when a call fails no later call is started and the       *)
(* response is a failure, though a document may have been created.         *)
(***************************************************************************)
CallOrder == <<"create", "get", "clear", "write">>

C30_CallsInOrder ==
    \A j \in 1..Len(saves) :
        LET calls == saves[j].calls
        IN  /\ Len(calls) <= 4
            /\ \A i \in 1..Len(calls) :
                  /\ calls[i].api = CallOrder[i]
                  /\ i > 1 => /\ calls[i - 1].result = "ok"
                              /\ calls[i].spreadsheetId = calls[1].spreadsheetId
                  /\ calls[i].result = "pending" => saves[j].phase # "done"
            /\ Len(saves[j].responses) = IF saves[j].phase = "done" THEN 1 ELSE 0
            /\ saves[j].phase = "done" =>
                  IF Len(calls) = 4 /\ calls[4].result = "ok"
                  THEN saves[j].responses[1] =
                           [success |-> TRUE, spreadsheetId |-> calls[1].spreadsheetId,
                            spreadsheetUrl |-> <<"https://docs.google.com/spreadsheets/d/">>
                                                   \o calls[1].spreadsheetId]
                  ELSE ~saves[j].responses[1].success

\* a document was created and read, the clear failed: no write, a failure
C30_Witness ==
    \E j \in 1..Len(saves) :
        /\ saves[j].phase = "done"
        /\ Len(saves[j].calls) = 3
        /\ saves[j].calls[1].result = "ok"
        /\ saves[j].calls[1].spreadsheetId # <<>>
        /\ saves[j].calls[2].result = "ok"
        /\ saves[j].calls[3].result = "failed"
        /\ ~saves[j].responses[1].success
        /\ "needsAuth" \notin DOMAIN saves[j].responses[1]

(***************************************************************************)
(* C25: every successful save creates exactly one new spreadsheet and      *)
(* writes into no spreadsheet created before (the stored spreadsheet id is *)
(* not consulted): its first call creates a document whose id is neither   *)
(* the stored one nor that of another save, and its other calls address    *)
(* that document.  On the success response the popup stores the id and the *)
(* URL of that spreadsheet and opens the URL in a new tab.                 *)
(***************************************************************************)
Succeeded(j) == saves[j].phase = "done" /\ saves[j].responses[1].success

OwnNewSpreadsheet ==
    \A j \in 1..Len(saves) : Succeeded(j) =>
        LET calls == saves[j].calls
        IN  /\ calls[1].api = "create"
            /\ \A i \in 2..Len(calls) :
                  calls[i].api # "create" /\ calls[i].spreadsheetId = calls[1].spreadsheetId
            /\ calls[1].spreadsheetId # SpreadsheetId(0)
            /\ \A o \in 1..Len(saves) : \A i \in 1..Len(saves[o].calls) :
                  (o # j /\ saves[o].calls[i].result # "pending")
                      => saves[o].calls[i].spreadsheetId # calls[1].spreadsheetId
            /\ saves[j].responses[1].spreadsheetId = calls[1].spreadsheetId

SuccessReceived(k) ==
    /\ k <= Len(flows)
    /\ flows[k].phase = "save"
    /\ flows'[k].phase = "done"
    /\ flows'[k].saved # <<>>
    /\ flows'[k].saved[1].success

C25_NewSpreadsheetEachSave ==
    /\ []OwnNewSpreadsheet
    /\ [][\A k \in 1..MaxClicks : SuccessReceived(k) =>
             /\ \E j \in 1..Len(saves) :
                   /\ saves[j].click = k
                   /\ Succeeded(j)
                   /\ flows'[k].saved = saves[j].responses
             /\ storage'.spreadsheetId = flows'[k].saved[1].spreadsheetId
             /\ storage'.spreadsheetUrl = flows'[k].saved[1].spreadsheetUrl
             /\ popup'.opened = Append(popup.opened, flows'[k].saved[1].spreadsheetUrl)
             /\ popup'.dataUrl = flows'[k].saved[1].spreadsheetUrl]_vars

\* two successful saves in one popup: two documents, both opened, the second
\* one stored
C25_Witness ==
    /\ Len(saves) = 2
    /\ Succeeded(1)
    /\ Succeeded(2)
    /\ saves[1].calls[4].spreadsheetId = SpreadsheetId(1)
    /\ saves[2].calls[4].spreadsheetId = SpreadsheetId(2)
    /\ popup.opened = <<spreadsheetUrlOf(SpreadsheetId(1)), spreadsheetUrlOf(SpreadsheetId(2))>>
    /\ storage.spreadsheetId = SpreadsheetId(2)
    /\ flows[2].phase = "done"

(***************************************************************************)
(* C22: the popup distinguishes the two kinds of failed save.  When the    *)
(* save response carries needsAuth it hides the extraction controls and    *)
(* shows the sign-in control; for any other failed save it shows a generic *)
(* error message and leaves the visibility of the sign-in control and of   *)
(* the extraction controls as it was.                                      *)
(***************************************************************************)
FailureReceived(k) ==
    /\ k <= Len(flows)
    /\ flows[k].phase = "save"
    /\ flows'[k].phase = "done"
    /\ flows'[k].saved = <<>> \/ ~flows'[k].saved[1].success

AsksToSignIn(response) ==
    response # <<>> /\ "needsAuth" \in DOMAIN response[1] /\ response[1].needsAuth

GenericErrors ==
    {<<"Failed to export data to Google Sheets: ">>, <<"Error saving to Google Sheets: ">>}

C22_FailedSavesDistinguished ==
    [][\A k \in 1..MaxClicks : FailureReceived(k) =>
          /\ popup'.status.type = "error"
          /\ IF AsksToSignIn(flows'[k].saved)
             THEN /\ ~popup'.extractionControls
                  /\ popup'.loginStatus
                  /\ popup'.status.text = <<"Please sign in with Google to continue">>
             ELSE /\ popup'.extractionControls = popup.extractionControls
                  /\ popup'.loginStatus = popup.loginStatus
                  /\ SubSeq(popup'.status.text, 1, 1) \in GenericErrors
                  /\ Len(popup'.status.text) > 1]_vars

\* a save failed for a fault that is no authentication fault: the message
\* names it, the extraction controls are still shown
C22_Witness ==
    \E k \in 1..Len(flows) :
        /\ flows[k].phase = "done"
        /\ flows[k].saved = <<[success |-> FALSE, error |-> s_BackendError]>>
        /\ popup.status = [text |-> <<"Failed to export data to Google Sheets: ">>
                                        \o s_BackendError,
                           type |-> "error"]
        /\ popup.extractionControls
        /\ ~popup.loginStatus

(***************************************************************************)
(* C23: the popup prevents re-entrant extraction.  From the click on the   *)
(* extract button until the extraction response, or an error before the    *)
(* extraction, has been received, the button is disabled; so at no time    *)
(* are two extraction requests of the popup outstanding.                   *)
(***************************************************************************)
BeforeResponse(k) == flows[k].phase \in {"query", "ping", "inject", "delay", "extract"}

C23_NoReentrantExtraction ==
    /\ \A k \in 1..Len(flows) : BeforeResponse(k) => popup.extractDisabled
    /\ Cardinality({k \in 1..Len(flows) : BeforeResponse(k)}) <= 1
    /\ Cardinality({k \in 1..Len(flows) : flows[k].phase = "extract"}) <= 1

\* a second click while the save of the first extraction is under way: its
\* extraction request is the only one outstanding
C23_Witness ==
    /\ Len(flows) = 2
    /\ flows[1].phase = "save"
    /\ flows[1].sent = 1
    /\ flows[2].phase = "extract"
    /\ flows[2].sent = 1
    /\ popup.extractDisabled

(***************************************************************************)
(* C26: the popup sends no extraction request to a tab before the content  *)
(* script is known to be there.  A flow sends at most one request, and     *)
(* only after its ping was answered without error, or after its injection  *)
(* completed without error and the start-up delay elapsed; after a         *)
(* successful ping nothing is injected; and after a failed injection no    *)
(* request is sent and an error is shown.                                  *)
(***************************************************************************)
SentWhenResident ==
    \A k \in 1..Len(flows) :
        /\ flows[k].sent <= 1
        /\ flows[k].sent = 1 =>
              /\ env.resident
              /\ \/ flows[k].ping = "ok" /\ flows[k].inject = "" /\ ~flows[k].delayed
                 \/ flows[k].ping = "error" /\ flows[k].inject = "ok" /\ flows[k].delayed
        /\ flows[k].ping = "ok" => flows[k].inject = ""
        /\ flows[k].inject # "" => flows[k].ping = "error"
        /\ flows[k].inject = "error" => flows[k].sent = 0 /\ flows[k].phase = "done"

C26_ExtractionOnlyWhenResident ==
    /\ []SentWhenResident
    /\ [][\A k \in 1..MaxClicks :
             (k <= Len(flows) /\ flows[k].inject = "" /\ flows'[k].inject = "error") =>
                 /\ popup'.status.type = "error"
                 /\ popup'.status.text =
                        <<"Failed to initialize data extraction. Please refresh the page and try again.">>
                 /\ ~popup'.extractDisabled]_vars

\* the first flow injected the script and waited, the second found it with
\* its ping; each sent one request
C26_Witness ==
    /\ Len(flows) = 2
    /\ flows[1].ping = "error"
    /\ flows[1].inject = "ok"
    /\ flows[1].delayed
    /\ flows[1].sent = 1
    /\ flows[2].ping = "ok"
    /\ flows[2].inject = ""
    /\ flows[2].sent = 1

(***************************************************************************)
(* C27: the popup forwards records to the background script only for an    *)
(* extraction response with success true and a data array that is not      *)
(* empty.  A missing response, a transport error, a failure response and   *)
(* an empty data sequence cause no save request; and the records and the   *)
(* wishlist name of a save request are exactly those of the response.      *)
(***************************************************************************)
C27_ForwardsOnlySuccessfulData ==
    /\ \A k \in 1..Len(flows) : flows[k].forwarded # <<>> =>
          /\ flows[k].response # <<>>
          /\ flows[k].response[1].success
          /\ "data" \in DOMAIN flows[k].response[1]
          /\ Len(flows[k].response[1].data) > 0
          /\ flows[k].forwarded[1].wishlistData = flows[k].response[1].data
          /\ flows[k].forwarded[1].wishlistName =
                 IF "wishlistName" \in DOMAIN flows[k].response[1]
                 THEN flows[k].response[1].wishlistName ELSE <<"undefined">>
    /\ \A j \in 1..Len(saves) :
          /\ saves[j].click \in 1..Len(flows)
          /\ flows[saves[j].click].forwarded = <<saves[j].request>>
          /\ \A o \in 1..Len(saves) : saves[o].click = saves[j].click => o = j

\* the two records and the name of a response, forwarded as they are
C27_Witness ==
    \E k \in 1..Len(flows) : \E j \in 1..Len(saves) :
        /\ saves[j].click = k
        /\ flows[k].response = <<usualReply>>
        /\ saves[j].request.wishlistData = <<recFull, recBare>>
        /\ saves[j].request.wishlistName = s_AirbnbWishlist

(***************************************************************************)
(* C31: chrome.identity.getAuthToken is called with interactive true only  *)
(* while an authorize message is handled.  A save, start-up and            *)
(* installation call it with interactive false; when that call shows the   *)
(* stored token to be invalid, the cached token is removed and one more    *)
(* non-interactive call is made.  If it fails, validateToken rejects with  *)
(* "Authentication token expired"; if it succeeds, the new token is        *)
(* written to the storage and validateToken resolves when that write has   *)
(* returned.  As stated, the new token is then in the storage; as amended  *)
(* it is there unless the write failed, in which case the storage is as    *)
(* it was.                                                                 *)
(***************************************************************************)
IdentityCalls(j) ==
    SelectSeq(saves[j].host, LAMBDA c : c \notin {"storage.get", "storage.clear"})

RefreshCalls == <<"getAuthToken", "removeCachedAuthToken", "getAuthToken", "storage.set">>

IsPrefix(a, b) == Len(a) <= Len(b) /\ a = SubSeq(b, 1, Len(a))

InteractiveOnlyToAuthorize ==
    \A j \in 1..Len(saves) :
        IF saves[j].kind = "authorize"
        THEN IsPrefix(IdentityCalls(j), <<"getAuthToken interactive", "storage.set">>)
        ELSE /\ IsPrefix(IdentityCalls(j), RefreshCalls)
             /\ saves[j].phase = "remove" => IdentityCalls(j) = SubSeq(RefreshCalls, 1, 2)
             /\ saves[j].phase = "refresh" => IdentityCalls(j) = SubSeq(RefreshCalls, 1, 3)
             /\ saves[j].phase = "store" => IdentityCalls(j) = RefreshCalls
             /\ saves[j].rejected = <<"Authentication token expired">>
                    => IdentityCalls(j) = SubSeq(RefreshCalls, 1, 3)

\* the write of the refreshed token returns in this step
RefreshResolves(j) ==
    /\ j <= Len(saves)
    /\ saves[j].phase = "store"
    /\ saves'[j].phase # "store"

C31_RefreshStoresBeforeResolving ==
    /\ []InteractiveOnlyToAuthorize
    /\ [][\A j \in 1..MaxMessages : RefreshResolves(j) =>
             storage'.token = s_tokenRefreshed]_vars

C31_RefreshNeverInteractive ==
    /\ []InteractiveOnlyToAuthorize
    /\ [][\A j \in 1..MaxMessages : RefreshResolves(j) =>
             /\ IdentityCalls(j) = RefreshCalls
             /\ saves'[j].host = saves[j].host
                    \/ saves'[j].host = Append(saves[j].host, "storage.clear")
             /\ storage'.token = s_tokenRefreshed
                    \/ (Outcome(env, "validate", saves[j].click) = "unsaved"
                            /\ storage' = storage)
             /\ saves[j].kind # "save" =>
                    saves'[j].phase = "done" /\ saves'[j].token = s_tokenRefreshed
             /\ (saves[j].kind = "save" /\ ~rowsThrow(saves[j].request.wishlistData)) =>
                    /\ saves'[j].phase = "create"
                    /\ saves'[j].token = s_tokenRefreshed]_vars

\* at start-up the token was refreshed without a prompt and stored
C31_Witness ==
    \E j \in 1..Len(saves) :
        /\ saves[j].kind = "startup"
        /\ saves[j].phase = "done"
        /\ saves[j].token = s_tokenRefreshed
        /\ saves[j].host = <<"storage.get">> \o RefreshCalls
        /\ storage.token = s_tokenRefreshed

(***************************************************************************)
(* C32: a response with needsAuth is sent from the callback of             *)
(* chrome.storage.local.clear and from nowhere else, whether the token was *)
(* missing, its validation failed or a call to Google failed with a        *)
(* message taken for an authentication fault.  As stated, the storage then *)
(* holds no token, spreadsheet id or URL, and a popup opened at that       *)
(* moment shows the sign-in view; as amended this is so when the clear     *)
(* succeeded, and when it failed the response is sent all the same, the    *)
(* storage is as it was and a popup opened then shows what it holds.       *)
(***************************************************************************)
NeedsAuthSent(j) ==
    /\ j <= Len(saves)
    /\ saves[j].responses = <<>>
    /\ saves'[j].responses # <<>>
    /\ "needsAuth" \in DOMAIN saves'[j].responses[1]

\* the popup after its initialization on a storage
PopupOpenedOn(st) ==
    initializePopup(PopupAtLoad, st, QuietEnv)

ShowsSignIn(p) ==
    p.loginStatus /\ ~p.extractionControls

SentFromClearCallback(j) ==
    /\ saves[j].kind = "save"
    /\ saves[j].phase = "clearing"
    /\ saves[j].host[Len(saves[j].host)] = "storage.clear"
    /\ saves'[j].host = saves[j].host
    /\ saves'[j].responses = <<NeedsAuthResponse>>

AuthorizeAnswerSent(j) ==
    /\ j <= Len(saves)
    /\ saves[j].kind = "authorize"
    /\ saves[j].responses = <<>>
    /\ saves'[j].responses # <<>>

AuthorizeAnswerReceived(k) ==
    /\ k <= Len(flows)
    /\ flows[k].phase = "authorize"
    /\ flows'[k].phase = "done"

C33_AuthorizeSuccessAfterStore ==
    [][/\ \A j \in 1..MaxClicks : AuthorizeAnswerSent(j) =>
             IF Outcome(env, "authorize", saves[j].click) = "ok"
             THEN /\ saves[j].phase = "keep"
                  /\ saves[j].host = <<"getAuthToken interactive", "storage.set">>
                  /\ saves'[j].responses = <<[success |-> TRUE]>>
                  /\ storage'.token = s_token
             ELSE /\ ~saves'[j].responses[1].success
                  /\ saves'[j].responses[1].error # <<>>
                  /\ storage' = storage
       /\ \A k \in 1..MaxClicks : AuthorizeAnswerReceived(k) =>
             IF Outcome(env, "authorize", k) = "ok"
                    /\ Outcome(env, "authorizeMessage", k) = "ok"
             THEN /\ flows'[k].saved = <<[success |-> TRUE]>>
                  /\ ~popup'.loginStatus
                  /\ popup'.extractionControls
             ELSE /\ ShowsSignIn(popup)
                  /\ ShowsSignIn(popup')
                  /\ popup'.status.type = "error"
                  /\ popup'.status.text # <<>>]_vars

\* the token was obtained but its write failed: the popup shows the message
\* of the failure in the sign-in view, and the storage holds no token
C33_Witness ==
    \E k \in 1..Len(flows) :
        /\ flows[k].phase = "done"
        /\ flows[k].saved = <<[success |-> FALSE,
                               error |-> <<"Error saving authentication: ">> \o lastErrorMessage]>>
        /\ ShowsSignIn(popup)
        /\ popup.status.text = <<"Error saving authentication: ">> \o lastErrorMessage
                                   \o <<". Please try again.">>
        /\ storage.token = <<>>

(***************************************************************************)
(* C34: every authorize and save message handled by the background script  *)
(* gets exactly one response: never more than one, none while a callback   *)
(* is awaited, and eventually one if each awaited callback is delivered.   *)
(* A save message whose data is missing or an empty array is answered at   *)
(* once with the failure "No valid wishlist data to save", without a call  *)
(* of the storage, the identity interface or Google.                       *)
(***************************************************************************)
IsMessage(j) == saves[j].kind \in {"save", "authorize"}

InvalidData(request) ==
    "wishlistData" \notin DOMAIN request \/ request.wishlistData = <<>>

AnsweredAtMostOnce ==
    \A j \in 1..Len(saves) :
        /\ Len(saves[j].responses) = IF IsMessage(j) /\ saves[j].phase = "done" THEN 1 ELSE 0
        /\ (saves[j].kind = "save" /\ InvalidData(saves[j].request)) =>
              /\ saves[j].responses =
                     <<[success |-> FALSE, error |-> <<"No valid wishlist data to save">>]>>
              /\ saves[j].host = <<>>
              /\ saves[j].calls = <<>>

C34_EveryRequestAnsweredOnce ==
    /\ []AnsweredAtMostOnce
    /\ \A j \in 1..MaxMessages :
          (j <= Len(saves) /\ IsMessage(j)) ~> (j <= Len(saves) /\ Len(saves[j].responses) = 1)

\* a save without data and a save that went through every call were both
\* answered
C34_Witness ==
    /\ Len(saves) = 2
    /\ saves[1].kind = "save"
    /\ "wishlistData" \notin DOMAIN saves[1].request
    /\ saves[1].responses # <<>>
    /\ saves[2].kind = "save"
    /\ Len(saves[2].calls) = 4
    /\ Len(saves[2].responses) = 1
    /\ saves[2].responses[1].success

(***************************************************************************)
(* C35: after a click on the extract button, and with every callback       *)
(* delivered, the button is eventually enabled again with the label        *)
(* "Extract Wishlist Data".  As stated this holds on every path; as        *)
(* amended it holds on every path on which the tab query hands over a      *)
(* tab.  When it hands over none, the callback throws at its first lines   *)
(* and the button stays disabled with the label "Extracting...".           *)
(***************************************************************************)
ButtonReset ==
    ~popup.extractDisabled /\ popup.extractLabel = <<"Extract Wishlist Data">>

\* the click that started flow k has not been dealt with yet
Clicked(k) == k <= Len(flows) /\ BeforeResponse(k)

HandsOverTab(k) ==
    Outcome(env, "query", k) \notin {"noTabs", "lastErrorNoTabs"}

\* once a query has handed over no tab, nothing enables the button
CrashKeepsDisabled ==
    \A k \in 1..Len(flows) : flows[k].phase = "crashed" =>
        /\ k = Len(flows)
        /\ popup.extractDisabled
        /\ popup.extractLabel = <<"Extracting...">>

C36_ExactlyOneView ==
    popup.loginStatus # popup.extractionControls

\* the user signed in, then a save was refused for want of a valid token:
\* the popup went from the sign-in view to the extraction controls and back
C36_Witness ==
    /\ Len(flows) = 2
    /\ flows[1].saved = <<[success |-> TRUE]>>
    /\ flows[2].saved = <<NeedsAuthResponse>>
    /\ flows[2].phase = "done"
    /\ popup.loginStatus
    /\ ~popup.extractionControls

(***************************************************************************)
(* C37: which failed saves are answered with needsAuth.  As stated: every  *)
(* call to Google that fails with status 401 is, and no call that fails    *)
(* with another status and no fault while the rows are built is.  As       *)
(* amended: a failed call is answered with needsAuth exactly when the      *)
(* message of its error contains "401", "auth" or "permission", where the  *)
(* message is the one in the body if the body has one, else the status     *)
(* text, else "HTTP Error " and the status, and for a body that is not     *)
(* JSON "HTTP Error ", the status, ": " and the status text; a body that   *)
(* is the JSON value null gives the message of a TypeError.  A fault while *)
(* the rows are built is always answered with needsAuth.                   *)
(***************************************************************************)
Mentions(text) ==
    includes(text, s_401) \/ includes(text, s_auth) \/ includes(text, s_permission)

\* the answer of Google to the call of save j that failed
FailedCall(j) ==
    /\ saves[j].kind = "save"
    /\ saves[j].phase = "done"
    /\ saves[j].calls # <<>>
    /\ saves[j].calls[Len(saves[j].calls)].result = "failed"

FailedResponse == ApiResponse(env.fault[2])

\* the rows of save j could not be built
RowsFault(j) ==
    /\ saves[j].kind = "save"
    /\ saves[j].phase = "done"
    /\ "wishlistData" \in DOMAIN saves[j].request
    /\ rowsThrow(saves[j].request.wishlistData)
    /\ saves[j].rejected = <<>>
    /\ \E i \in 1..Len(saves[j].host) : saves[j].host[i] = "getAuthToken"

NeedsAuthAnswered(j) ==
    saves[j].responses = <<NeedsAuthResponse>>

TakenForAuthFault(response) ==
    CASE response.body.kind = "null" -> FALSE
      [] response.body.kind = "text" ->
             Mentions(response.status) \/ Mentions(response.statusText)
      [] response.body.message # <<>> -> Mentions(response.body.message)
      [] response.statusText # <<>> -> Mentions(response.statusText)
      [] OTHER -> Mentions(response.status)

====
